---- MODULE Spec2Model ----
(***************************************************************************)
(* PHM2: a multi-tenant CRM (customers, leads, products, quotes,          *)
(* appointments, survey visits) behind an HTTP JSON API.  The model holds  *)
(* the relational tables as sets of rows and one action per route handler. *)
(*                                                                         *)
(* Amounts: a JavaScript number is represented exactly as an integer count *)
(* of 1/10000 of a pound; a numeric(10,2) column holds a multiple of Scale *)
(* (one penny) and Numeric2 is the rounding the database applies on write. *)
(***************************************************************************)
EXTENDS Integers, Sequences, FiniteSets, TLC

VARIABLES
    quotes,        \* rows of table quotes
    quoteLines,    \* rows of table quote_lines
    nextQuoteId,   \* serial of quotes.id
    now,           \* the database clock (defaultNow(), new Date())
    year,          \* new Date().getFullYear()
    issued,        \* history: quote numbers handed out, <<accountId, quoteNumber>>
    customers,     \* rows of table customers
    leads,         \* rows of table leads
    products,      \* rows of table products
    nextProductId, \* serial of products.id
    inflight,      \* POST /api/products requests between their check and their insert
    visitSessions, \* rows of table visit_sessions
    surveyModules, \* rows of table survey_modules
    appointments,  \* rows of table appointments
    nextVisitId,   \* serial of visit_sessions.id
    nextModuleId,  \* serial of survey_modules.id
    nextAppointmentId, \* serial of appointments.id
    users,         \* rows of table users
    nextUserId,    \* serial of users.id
    nextAccountId, \* serial of accounts.id
    tokens,        \* the tokens the server has signed
    clock,         \* the time jwt.sign and jwt.verify read
    boilerSpecifications, \* rows of table boiler_specifications
    nextBoilerId,  \* serial of boiler_specifications.id
    nextCustomerId, \* serial of customers.id
    listing,       \* the body of the answer handled last, where the model keeps one
    nodeEnv,       \* process.env.NODE_ENV
    confirmDestructiveActions, \* the setting of the cognitive profile store
    isHolding,     \* ConfirmButton state
    isExecuting,   \* ConfirmButton state
    holdTimerRef,  \* the id holdTimerRef.current holds, NoVal for null
    timers,        \* the timeouts that are set and have neither fired nor been cleared
    nextTimerId,   \* the id the next setTimeout returns
    time,          \* Date.now() in the browser
    heldSince,     \* when the press began that no release, leave or touch end followed
    onClickCalls,  \* how often the button's onClick was invoked
    txs,           \* quote requests between their first read and the end of their transaction
    stream,        \* the SSE stream of GET /api/transcription/stream/:visitSessionId
    keepAliveInterval, \* when the keep-alive interval fires next, NoVal when none is set
    streamTime,    \* the server's time, in units of ten seconds
    delivered,     \* what the last answer of an auth route handed to the client
    response       \* the answer to the request handled last

quoteVars == <<quotes, quoteLines, nextQuoteId, now, year, issued>>
refVars == <<customers, leads, products, nextProductId, inflight>>
visitVars == <<visitSessions, surveyModules, nextVisitId, nextModuleId>>
appointmentVars == <<appointments, nextAppointmentId>>
authVars == <<users, nextUserId, nextAccountId, tokens, clock>>
boilerVars == <<boilerSpecifications, nextBoilerId>>
pageVars == <<nextCustomerId, listing>>
buttonVars == <<confirmDestructiveActions, isHolding, isExecuting, holdTimerRef, timers,
                nextTimerId, time, heldSince, onClickCalls>>
raceVars == <<txs>>
streamVars == <<stream, keepAliveInterval, streamTime>>
sessionVars == <<delivered>>
laterVars == <<nodeEnv, buttonVars, raceVars, streamVars, sessionVars>>
notSessionVars == <<boilerVars, pageVars, nodeEnv, buttonVars, raceVars, streamVars>>
extraVars == <<boilerVars, pageVars, laterVars>>
otherVars == <<authVars, extraVars>>
vars == <<quotes, quoteLines, nextQuoteId, now, year, issued,
          customers, leads, products, nextProductId, inflight, visitSessions, surveyModules, appointments,
          nextVisitId, nextModuleId, nextAppointmentId, users, nextUserId, nextAccountId,
          tokens, clock, boilerSpecifications, nextBoilerId,
          nextCustomerId, listing, nodeEnv, confirmDestructiveActions, isHolding,
          isExecuting, holdTimerRef, timers, nextTimerId, time, heldSince, onClickCalls,
          txs, stream, keepAliveInterval, streamTime, delivered, response>>

\* What the quote handlers leave alone.
notQuoteVars == <<refVars, visitVars, appointmentVars, otherVars>>

----------------------------------------------------------------------------
(* Bounds of the model *)

MaxQuotes == 2      \* inserts into quotes attempted in the totals model
MaxNumbered == 4    \* inserts into quotes attempted in the numbering model
MaxYear == 2        \* calendar years the numbering model runs through
MaxStamped == 1     \* inserts into quotes attempted in the lifecycle model
MaxVisits == 2      \* visit sessions started
MaxModules == 1     \* survey modules added
MaxAppointments == 1 \* appointments booked
MaxProducts == 4    \* last products.id handed out
MaxInflight == 2    \* product creations in progress at once
MaxClock == 3       \* last time the token clock reaches
MaxTokens == 4      \* tokens signed

(* An absent optional field (undefined / NULL). *)
NoVal == -1

(* A text standing where the code expects a number. *)
Text == -2

(* numeric(10,2): units of 1/10000 pound per penny. *)
Scale == 100

----------------------------------------------------------------------------
(* Reference data present in every model: two accounts, each with one      *)
(* admin user, one customer, one lead and one product.                     *)

Accounts == {1, 2}

Users == { [userId |-> 1, accountId |-> 1, role |-> "admin"],
           [userId |-> 2, accountId |-> 2, role |-> "admin"] }

\* The users rows of the two admins; a password stands for the hash bcrypt
\* keeps of it.
UserRows == { [id |-> 1, accountId |-> 1, email |-> "a@one", role |-> "admin",
               isActive |-> TRUE, password |-> "Secret-one-1"],
              [id |-> 2, accountId |-> 2, email |-> "b@two", role |-> "admin",
               isActive |-> TRUE, password |-> "Secret-two-2"] }

Customers == { [id |-> 1, accountId |-> 1, propertyType |-> "flat"],
               [id |-> 2, accountId |-> 2, propertyType |-> "flat"] }

Leads == { [id |-> 1, accountId |-> 1, customerId |-> 1, assignedTo |-> 1],
           [id |-> 2, accountId |-> 2, customerId |-> 2, assignedTo |-> 2] }

Products == { [id |-> 1, accountId |-> 1, sku |-> "X1"],
              [id |-> 2, accountId |-> 2, sku |-> "Y1"] }

----------------------------------------------------------------------------
(* Errors and the error handler *)

\* AppError(statusCode, message): the constructor keeps its first argument
\* as the status code and its second as the message.
AppError(statusCode, message) == [statusCode |-> statusCode, message |-> message]

NotFoundError(message) == AppError(404, message)
ValidationError(message) == AppError(400, message)
ConflictError(message) == AppError(409, message)
UnauthorizedError(message) == AppError(401, message)
ForbiddenError(message) == AppError(403, message)

\* An exception that is no AppError (a driver error such as a violated
\* constraint) has no statusCode.
DbError == [statusCode |-> NoVal, message |-> "db"]

\* errorHandler: statusCode = 500 unless the error is an AppError, then
\* c.json(body, statusCode): the statuses the answer can carry.  A
\* statusCode that is no number is either ignored by the framework (the
\* answer keeps the context's status, 200) or makes the Response
\* constructor throw inside the handler (the server answers 500).
IsHttpStatus(s) == s \in 200..599

errorHandler(err) ==
    LET statusCode == IF err.statusCode = NoVal THEN 500 ELSE err.statusCode
    IN  IF IsHttpStatus(statusCode) THEN {statusCode} ELSE {200, 500}

----------------------------------------------------------------------------
(* Numbers *)

Abs(x) == IF x < 0 THEN -x ELSE x

\* Writing a number into a numeric(p,2) column rounds it to the penny,
\* halves away from zero.
Numeric2(x) ==
    LET a == Abs(x)
        r == ((a + (Scale \div 2)) \div Scale) * Scale
    IN  IF x < 0 THEN -r ELSE r

RECURSIVE SumLines(_)
SumLines(lines) ==
    IF lines = <<>> THEN 0
    ELSE LET line == Head(lines)
             lineTotal == (line.quantity * line.unitPrice) - line.discount
         IN  lineTotal + SumLines(Tail(lines))

\* calculateQuoteTotals(lines, taxRate)
calculateQuoteTotals(lines, taxRate) ==
    LET subtotal == SumLines(lines)
        taxAmount == (subtotal * taxRate) \div 100
        total == subtotal + taxAmount
    IN  [subtotal |-> subtotal, taxAmount |-> taxAmount, total |-> total]

\* a || b on an optional number: 0 and undefined are both falsy.
OrElse(a, b) == IF a = NoVal \/ a = 0 THEN b ELSE a

----------------------------------------------------------------------------
(* Quote numbers: the string QUO-<year>-<seq> is the record of its year    *)
(* and the digits of its sequence part.                                    *)

RECURSIVE Digits(_)
Digits(n) == IF n < 10 THEN <<n>> ELSE Append(Digits(n \div 10), n % 10)

RECURSIVE padStart(_, _)
padStart(ds, len) == IF Len(ds) >= len THEN ds ELSE padStart(<<0>> \o ds, len)

RECURSIVE parseInt(_)
parseInt(ds) ==
    IF ds = <<>> THEN 0 ELSE parseInt(SubSeq(ds, 1, Len(ds) - 1)) * 10 + ds[Len(ds)]

FormatQuoteNumber(y, n) == [year |-> y, seq |-> padStart(Digits(n), 3)]

\* findFirst where accountId = a and quoteNumber ilike 'QUO-<year>-%'
\* order by createdAt desc: the rows that can come first.
LatestQuotes(accountId) ==
    LET mine == {q \in quotes : q.accountId = accountId /\ q.quoteNumber.year = year}
    IN  {q \in mine : \A o \in mine : o.createdAt <= q.createdAt}

\* generateQuoteNumber(accountId): the numbers it can return (one, unless
\* two rows tie on createdAt).
generateQuoteNumber(accountId) ==
    IF LatestQuotes(accountId) = {} THEN {FormatQuoteNumber(year, 1)}
    ELSE {FormatQuoteNumber(year, parseInt(q.quoteNumber.seq) + 1) :
            q \in LatestQuotes(accountId)}

----------------------------------------------------------------------------
(* Request bodies and their validation (zod schemas) *)

DefaultTaxRate == 20

\* quoteLineSchema: quantity an integer >= 1, unitPrice >= 0, discount >= 0.
ValidLine(line) ==
    /\ line.quantity >= 1
    /\ line.unitPrice >= 0
    /\ line.discount >= 0

\* createQuoteSchema: customerId positive, taxRate in 0..100 when given,
\* lines a list of at least one valid line.
createQuoteSchemaAllowsEmpty(data) ==
    /\ data.customerId > 0
    /\ data.taxRate = NoVal \/ data.taxRate \in 0..100
    /\ \A i \in 1..Len(data.lines) : ValidLine(data.lines[i])

createQuoteSchema(data) ==
    /\ data.customerId > 0
    /\ data.taxRate = NoVal \/ data.taxRate \in 0..100
    /\ Len(data.lines) >= 1
    /\ \A i \in 1..Len(data.lines) : ValidLine(data.lines[i])

\* taxRate: z.number().min(0).max(100).default(20): the default fills in
\* for an absent value only.
ParsedTaxRate(data) == IF data.taxRate = NoVal THEN DefaultTaxRate ELSE data.taxRate

\* updateQuoteSchema = createQuoteSchema.partial() plus an optional status:
\* every field may be absent (no default is applied then), a lines list
\* that is present still needs one line.
QuoteStatuses == {"draft", "sent", "viewed", "accepted", "rejected", "expired"}
NoStatus == "absent"

updateQuoteSchema(data) ==
    /\ data.taxRate = NoVal \/ data.taxRate \in 0..100
    /\ data.status = NoStatus \/ data.status \in QuoteStatuses
    /\ data.hasLines =>
          /\ Len(data.lines) >= 1
          /\ \A i \in 1..Len(data.lines) : ValidLine(data.lines[i])

----------------------------------------------------------------------------
(* Rows *)

\* The row tx.insert(quoteLines).values({...}) writes for line `index`
\* (0-based) of a request.
NewLineRow(quoteId, line, index) ==
    [ quoteId     |-> quoteId,
      productId   |-> line.productId,
      sortOrder   |-> index,
      description |-> line.description,
      quantity    |-> line.quantity,
      unitPrice   |-> Numeric2(line.unitPrice),
      discount    |-> Numeric2(OrElse(line.discount, 0)),
      lineTotal   |-> Numeric2((line.quantity * line.unitPrice) - OrElse(line.discount, 0)) ]

NewLineRows(quoteId, lines) ==
    { NewLineRow(quoteId, lines[i], i - 1) : i \in 1..Len(lines) }

LinesOf(quoteId) == {l \in quoteLines : l.quoteId = quoteId}

\* Foreign keys of quote_lines and quotes.
LineFksHold(lines) ==
    \A i \in 1..Len(lines) :
        lines[i].productId = NoVal \/ \E p \in products : p.id = lines[i].productId

LeadFkHolds(leadId) == leadId = NoVal \/ \E l \in leads : l.id = leadId

\* The insert with no unique constraint on quote_number.
QuoteNumberUnconstrained(quoteNumber) == TRUE

\* quotes.quote_number is declared .unique(): no two rows of the table,
\* whatever their account, hold the same number.
QuoteNumberFree(quoteNumber) == \A q \in quotes : q.quoteNumber # quoteNumber

\* The accounts whose data a response body carries.
OwnersOfIds(table, ids) == {r.accountId : r \in {t \in table : t.id \in ids}}

QuoteBodyOwners(q, withLead) ==
    {q.accountId}
      \cup OwnersOfIds(customers, {q.customerId})
      \cup (IF withLead THEN OwnersOfIds(leads, {q.leadId}) ELSE {})
      \cup OwnersOfIds(products, {l.productId : l \in LinesOf(q.id)})
      \cup {u.accountId : u \in {v \in Users : v.userId = q.createdBy}}

Reply(op, status, id, owners) ==
    [op |-> op, status |-> status, id |-> id, owners |-> owners]

Fail(op, err, id) == {Reply(op, status, id, {}) : status \in errorHandler(err)}

----------------------------------------------------------------------------
(* Quote route handlers.  Each is the whole handler, run with no other     *)
(* request in between.                                                     *)

\* POST /api/quotes
CreateQuote(user, data) ==
    LET accountId == user.accountId
        taxRate == ParsedTaxRate(data)
        totals == calculateQuoteTotals(data.lines, OrElse(taxRate, DefaultTaxRate))
    IN
    /\ UNCHANGED <<year, notQuoteVars>>
    /\ IF ~createQuoteSchema(data)
       THEN /\ response' \in Fail("create", ValidationError("Validation failed"), NoVal)
            /\ UNCHANGED <<quotes, quoteLines, nextQuoteId, now, issued>>
       ELSE IF ~\E c \in customers : c.id = data.customerId /\ c.accountId = accountId
       THEN /\ response' \in Fail("create", NotFoundError("Customer not found"), NoVal)
            /\ UNCHANGED <<quotes, quoteLines, nextQuoteId, now, issued>>
       ELSE \E quoteNumber \in generateQuoteNumber(accountId) :
            LET quote == [ id          |-> nextQuoteId,
                           accountId   |-> accountId,
                           customerId  |-> data.customerId,
                           leadId      |-> data.leadId,
                           quoteNumber |-> quoteNumber,
                           status      |-> "draft",
                           taxRate     |-> OrElse(taxRate, DefaultTaxRate),
                           subtotal    |-> Numeric2(totals.subtotal),
                           taxAmount   |-> Numeric2(totals.taxAmount),
                           total       |-> Numeric2(totals.total),
                           sentAt      |-> NoVal,
                           acceptedAt  |-> NoVal,
                           rejectedAt  |-> NoVal,
                           createdBy   |-> user.userId,
                           createdAt   |-> now ]
            IN
            /\ nextQuoteId' = nextQuoteId + 1
            /\ IF QuoteNumberFree(quoteNumber) /\ LeadFkHolds(data.leadId)
                  /\ LineFksHold(data.lines)
               THEN /\ quotes' = quotes \cup {quote}
                    /\ quoteLines' = quoteLines \cup NewLineRows(quote.id, data.lines)
                    /\ now' = now + 1
                    /\ issued' = issued \cup {<<accountId, quoteNumber>>}
                    /\ response' = Reply("create", 201, quote.id,
                                         QuoteBodyOwners(quote, FALSE)')
               ELSE \* the transaction rolls back
                    /\ response' \in Fail("create", DbError, NoVal)
                    /\ UNCHANGED <<quotes, quoteLines, now, issued>>

\* GET /api/quotes/:id
GetQuote(user, id) ==
    /\ UNCHANGED <<quoteVars, notQuoteVars>>
    /\ IF \E q \in quotes : q.id = id /\ q.accountId = user.accountId
       THEN LET q == CHOOSE r \in quotes : r.id = id
            IN  response' = Reply("get", 200, id, QuoteBodyOwners(q, TRUE))
       ELSE response' \in Fail("get", NotFoundError("Quote not found"), id)

\* PUT /api/quotes/:id
UpdateQuote(user, id, data) ==
    /\ UNCHANGED <<nextQuoteId, now, year, issued, notQuoteVars>>
    /\ IF ~updateQuoteSchema(data)
       THEN /\ response' \in Fail("update", ValidationError("Validation failed"), id)
            /\ UNCHANGED <<quotes, quoteLines>>
       ELSE IF ~\E q \in quotes : q.id = id /\ q.accountId = user.accountId
       THEN /\ response' \in Fail("update", NotFoundError("Quote not found"), id)
            /\ UNCHANGED <<quotes, quoteLines>>
       ELSE
         LET existing == CHOOSE q \in quotes : q.id = id
             \* .set() skips the keys whose value is undefined
             base == [existing EXCEPT
                        !.taxRate = IF data.taxRate = NoVal THEN @ ELSE data.taxRate,
                        !.status = IF data.status = NoStatus THEN @ ELSE data.status]
             totals == calculateQuoteTotals(data.lines,
                                            OrElse(data.taxRate, existing.taxRate))
             updated == IF data.hasLines
                        THEN [base EXCEPT !.subtotal = Numeric2(totals.subtotal),
                                          !.taxAmount = Numeric2(totals.taxAmount),
                                          !.total = Numeric2(totals.total)]
                        ELSE base
         IN
         IF data.hasLines /\ ~LineFksHold(data.lines)
         THEN \* the transaction rolls back
              /\ response' \in Fail("update", DbError, id)
              /\ UNCHANGED <<quotes, quoteLines>>
         ELSE /\ quotes' = (quotes \ {existing}) \cup {updated}
              /\ quoteLines' = IF data.hasLines
                               THEN (quoteLines \ LinesOf(id)) \cup NewLineRows(id, data.lines)
                               ELSE quoteLines
              /\ response' = Reply("update", 200, id, QuoteBodyOwners(updated, FALSE)')

\* DELETE /api/quotes/:id.  quote_lines.quote_id is ON DELETE CASCADE;
\* appointments.quote_id references quotes.id with no action on delete, so
\* the database refuses to delete a quote an appointment points at.
DeleteQuote(user, id) ==
    /\ UNCHANGED <<nextQuoteId, now, year, issued, notQuoteVars>>
    /\ IF ~\E q \in quotes : q.id = id /\ q.accountId = user.accountId
       THEN /\ response' \in Fail("delete", NotFoundError("Quote not found"), id)
            /\ UNCHANGED <<quotes, quoteLines>>
       ELSE IF \E a \in appointments : a.quoteId = id
       THEN /\ response' \in Fail("delete", DbError, id)
            /\ UNCHANGED <<quotes, quoteLines>>
       ELSE /\ quotes' = {q \in quotes : q.id # id}
            /\ quoteLines' = quoteLines \ LinesOf(id)
            /\ response' = Reply("delete", 200, id, {})

\* The routes as they would be with the transitions draft -> sent ->
\* accepted or rejected enforced.
StampQuoteValidated(op, user, id, status, field) ==
    /\ UNCHANGED <<quoteLines, nextQuoteId, now, year, issued, notQuoteVars>>
    /\ IF \E q \in quotes : q.id = id /\ q.accountId = user.accountId
       THEN LET existing == CHOOSE q \in quotes : q.id = id
                updated == [existing EXCEPT !.status = status, ![field] = now]
            IN  IF existing.status = (IF op = "send" THEN "draft" ELSE "sent")
                THEN /\ quotes' = (quotes \ {existing}) \cup {updated}
                     /\ response' = Reply(op, 200, id, {existing.accountId})
                ELSE /\ response' \in Fail(op, ValidationError("Invalid transition"), id)
                     /\ UNCHANGED quotes
       ELSE /\ response' \in Fail(op, NotFoundError("Quote not found"), id)
            /\ UNCHANGED quotes

\* POST /api/quotes/:id/send, /accept, /reject
StampQuote(op, user, id, status, field) ==
    /\ UNCHANGED <<quoteLines, nextQuoteId, now, year, issued, notQuoteVars>>
    /\ IF \E q \in quotes : q.id = id /\ q.accountId = user.accountId
       THEN LET existing == CHOOSE q \in quotes : q.id = id
                updated == [existing EXCEPT !.status = status, ![field] = now]
            IN  /\ quotes' = (quotes \ {existing}) \cup {updated}
                /\ response' = Reply(op, 200, id, {existing.accountId})
       ELSE /\ response' \in Fail(op, NotFoundError("Quote not found"), id)
            /\ UNCHANGED quotes

SendQuote(user, id) == StampQuote("send", user, id, "sent", "sentAt")
AcceptQuote(user, id) == StampQuote("accept", user, id, "accepted", "acceptedAt")
RejectQuote(user, id) == StampQuote("reject", user, id, "rejected", "rejectedAt")

\* POST /api/quotes/:id/duplicate
DuplicateQuote(user, id) ==
    LET accountId == user.accountId IN
    /\ UNCHANGED <<year, notQuoteVars>>
    /\ IF ~\E q \in quotes : q.id = id /\ q.accountId = accountId
       THEN /\ response' \in Fail("duplicate", NotFoundError("Quote not found"), id)
            /\ UNCHANGED <<quotes, quoteLines, nextQuoteId, now, issued>>
       ELSE \E quoteNumber \in generateQuoteNumber(accountId) :
            LET original == CHOOSE q \in quotes : q.id = id
                newQuote == [ id          |-> nextQuoteId,
                              accountId   |-> accountId,
                              customerId  |-> original.customerId,
                              leadId      |-> original.leadId,
                              quoteNumber |-> quoteNumber,
                              status      |-> "draft",
                              taxRate     |-> original.taxRate,
                              subtotal    |-> original.subtotal,
                              taxAmount   |-> original.taxAmount,
                              total       |-> original.total,
                              sentAt      |-> NoVal,
                              acceptedAt  |-> NoVal,
                              rejectedAt  |-> NoVal,
                              createdBy   |-> user.userId,
                              createdAt   |-> now ]
                copies == {[l EXCEPT !.quoteId = newQuote.id] : l \in LinesOf(id)}
            IN
            /\ nextQuoteId' = nextQuoteId + 1
            /\ IF QuoteNumberFree(quoteNumber)
               THEN /\ quotes' = quotes \cup {newQuote}
                    /\ quoteLines' = quoteLines \cup copies
                    /\ now' = now + 1
                    /\ issued' = issued \cup {<<accountId, quoteNumber>>}
                    /\ response' = Reply("duplicate", 201, newQuote.id,
                                         QuoteBodyOwners(newQuote, FALSE)')
               ELSE \* the transaction rolls back
                    /\ response' \in Fail("duplicate", DbError, id)
                    /\ UNCHANGED <<quotes, quoteLines, now, issued>>

\* The calendar year changes.
NewYear ==
    /\ year < MaxYear
    /\ year' = year + 1
    /\ UNCHANGED <<quotes, quoteLines, nextQuoteId, now, issued, notQuoteVars, response>>

----------------------------------------------------------------------------
(* Customer, visit and appointment route handlers *)

\* What the visit handlers leave alone.
notVisitVars == <<quoteVars, refVars, appointmentVars, otherVars>>

\* What the appointment handlers leave alone.
notAppointmentVars == <<quoteVars, refVars, visitVars, otherVars>>

\* GET /api/customers/:id
GetCustomer(user, id) ==
    /\ UNCHANGED <<quoteVars, refVars, visitVars, appointmentVars, otherVars>>
    /\ IF \E c \in customers : c.id = id /\ c.accountId = user.accountId
       THEN response' = Reply("getCustomer", 200, id, {user.accountId})
       ELSE response' \in Fail("getCustomer", NotFoundError("Customer not found"), id)

\* The visit routes throw new AppError('Visit session not found', 404):
\* the text arrives as statusCode and the number as message.
VisitNotFound == AppError(Text, 404)

OwnVisit(user, id) ==
    \E v \in visitSessions : v.id = id /\ v.accountId = user.accountId

\* POST /api/visits: surveyorId is user.id, a field the token payload
\* (userId, accountId, email, role) does not have.
CreateVisit(user, data) ==
    LET visit == [ id         |-> nextVisitId,
                   accountId  |-> user.accountId,
                   surveyorId |-> NoVal,
                   customerId |-> data.customerId,
                   status     |-> "in_progress",
                   shareId    |-> NoStatus ]
    IN
    /\ UNCHANGED <<surveyModules, nextModuleId, notVisitVars>>
    /\ nextVisitId' = nextVisitId + 1
    /\ IF \E c \in customers : c.id = data.customerId
       THEN /\ visitSessions' = visitSessions \cup {visit}
            /\ response' = Reply("createVisit", 201, visit.id, {visit.accountId})
       ELSE /\ response' \in Fail("createVisit", DbError, NoVal)
            /\ UNCHANGED visitSessions

\* GET /api/visits/:id
GetVisit(user, id) ==
    /\ UNCHANGED <<visitVars, notVisitVars>>
    /\ IF OwnVisit(user, id)
       THEN response' = Reply("getVisit", 200, id, {user.accountId})
       ELSE response' \in Fail("getVisit", VisitNotFound, id)

\* PUT /api/visits/:id
UpdateVisit(user, id, data) ==
    /\ UNCHANGED <<surveyModules, nextVisitId, nextModuleId, notVisitVars>>
    /\ IF OwnVisit(user, id)
       THEN LET existing == CHOOSE v \in visitSessions : v.id = id
                visit == [existing EXCEPT
                            !.status = IF data.status = NoStatus THEN @ ELSE data.status]
            IN  /\ visitSessions' = (visitSessions \ {existing}) \cup {visit}
                /\ response' = Reply("updateVisit", 200, id, {visit.accountId})
       ELSE /\ response' \in Fail("updateVisit", VisitNotFound, id)
            /\ UNCHANGED visitSessions

\* DELETE /api/visits/:id (survey_modules.visit_session_id is ON DELETE
\* CASCADE)
DeleteVisit(user, id) ==
    /\ UNCHANGED <<nextVisitId, nextModuleId, notVisitVars>>
    /\ IF OwnVisit(user, id)
       THEN /\ visitSessions' = {v \in visitSessions : v.id # id}
            /\ surveyModules' = {m \in surveyModules : m.visitSessionId # id}
            /\ response' = Reply("deleteVisit", 200, id, {})
       ELSE /\ response' \in Fail("deleteVisit", VisitNotFound, id)
            /\ UNCHANGED <<visitSessions, surveyModules>>

\* POST /api/visits/:id/modules
CreateModule(user, visitId) ==
    LET module == [id |-> nextModuleId, visitSessionId |-> visitId,
                   status |-> "in_progress"]
    IN
    /\ UNCHANGED <<visitSessions, nextVisitId, notVisitVars>>
    /\ IF OwnVisit(user, visitId)
       THEN /\ surveyModules' = surveyModules \cup {module}
            /\ nextModuleId' = nextModuleId + 1
            /\ response' = Reply("createModule", 201, module.id, {user.accountId})
       ELSE /\ response' \in Fail("createModule", VisitNotFound, visitId)
            /\ UNCHANGED <<surveyModules, nextModuleId>>

\* DELETE /api/visits/:id/modules/:moduleId
DeleteModule(user, visitId, moduleId) ==
    /\ UNCHANGED <<visitSessions, nextVisitId, nextModuleId, notVisitVars>>
    /\ IF OwnVisit(user, visitId)
       THEN /\ surveyModules' = {m \in surveyModules :
                                   ~(m.id = moduleId /\ m.visitSessionId = visitId)}
            /\ response' = Reply("deleteModule", 200, moduleId, {})
       ELSE /\ response' \in Fail("deleteModule", VisitNotFound, moduleId)
            /\ UNCHANGED surveyModules

\* GET /api/visits: every query.where(...) replaces the where clause the
\* query had, the account filter included.
ListVisits(user, query) ==
    LET where0 == {v \in visitSessions : v.accountId = user.accountId}
        where1 == IF query.customerId # NoVal
                  THEN {v \in visitSessions : v.customerId = query.customerId}
                  ELSE where0
        where2 == IF query.surveyorId # NoVal
                  THEN {v \in visitSessions : v.surveyorId = query.surveyorId}
                  ELSE where1
        results == IF query.status # NoStatus
                   THEN {v \in visitSessions : v.status = query.status}
                   ELSE where2
    IN
    /\ UNCHANGED <<visitVars, notVisitVars>>
    /\ response' = Reply("listVisits", 200, NoVal, {v.accountId : v \in results})

\* The createAppointmentSchema of the route file: customerId positive,
\* quoteId positive when given, scheduledStart and scheduledEnd each a
\* datetime (every time of the model is one).  Nothing relates the two.
createAppointmentSchema(data) ==
    /\ data.customerId > 0
    /\ data.quoteId = NoVal \/ data.quoteId > 0

\* POST /api/appointments
CreateAppointment(user, data) ==
    LET appointment == [ id             |-> nextAppointmentId,
                         accountId      |-> user.accountId,
                         customerId     |-> data.customerId,
                         quoteId        |-> data.quoteId,
                         assignedTo     |-> data.assignedTo,
                         status         |-> "scheduled",
                         scheduledStart |-> data.scheduledStart,
                         scheduledEnd   |-> data.scheduledEnd ]
    IN
    /\ UNCHANGED notAppointmentVars
    /\ IF ~createAppointmentSchema(data)
       THEN /\ response' \in Fail("createAppointment", ValidationError("Validation failed"),
                                 NoVal)
            /\ UNCHANGED appointmentVars
       ELSE /\ nextAppointmentId' = nextAppointmentId + 1
            /\ IF /\ \E c \in customers : c.id = data.customerId
                  /\ data.quoteId = NoVal \/ \E q \in quotes : q.id = data.quoteId
                  /\ data.assignedTo = NoVal \/ \E u \in Users : u.userId = data.assignedTo
               THEN /\ appointments' = appointments \cup {appointment}
                    /\ response' = Reply("createAppointment", 201, appointment.id,
                                         {appointment.accountId})
               ELSE /\ response' \in Fail("createAppointment", DbError, NoVal)
                    /\ UNCHANGED appointments

\* updateAppointmentSchema = createAppointmentSchema.partial()
updateAppointmentSchema(data) == data.quoteId = NoVal \/ data.quoteId > 0

\* PUT /api/appointments/:id: a time that is given replaces the stored
\* one, the other stays.
UpdateAppointment(user, id, data) ==
    /\ UNCHANGED <<notAppointmentVars, nextAppointmentId>>
    /\ IF ~updateAppointmentSchema(data)
       THEN /\ response' \in Fail("updateAppointment", ValidationError("Validation failed"),
                                 id)
            /\ UNCHANGED appointments
       ELSE IF ~\E a \in appointments : a.id = id /\ a.accountId = user.accountId
       THEN /\ response' \in Fail("updateAppointment", AppError(Text, 404), id)
            /\ UNCHANGED appointments
       ELSE /\ appointments' =
                  { IF a.id = id
                    THEN [a EXCEPT
                            !.scheduledStart = IF data.scheduledStart = NoVal THEN @
                                               ELSE data.scheduledStart,
                            !.scheduledEnd = IF data.scheduledEnd = NoVal THEN @
                                             ELSE data.scheduledEnd]
                    ELSE a : a \in appointments }
            /\ response' = Reply("updateAppointment", 200, id, {user.accountId})

\* DELETE /api/appointments/:id
DeleteAppointment(user, id) ==
    /\ UNCHANGED <<notAppointmentVars, nextAppointmentId>>
    /\ IF ~\E a \in appointments : a.id = id /\ a.accountId = user.accountId
       THEN /\ response' \in Fail("deleteAppointment", AppError(Text, 404), id)
            /\ UNCHANGED appointments
       ELSE /\ appointments' = {a \in appointments : a.id # id}
            /\ response' = Reply("deleteAppointment", 200, id, {})

\* GET /api/appointments: filters start, end, assignedTo, status,
\* customerId, each replacing the where clause before it.
ListAppointments(user, query) ==
    LET where0 == {a \in appointments : a.accountId = user.accountId}
        where1 == IF query.start # NoVal
                  THEN {a \in appointments : a.scheduledStart >= query.start}
                  ELSE where0
        where2 == IF query.end # NoVal
                  THEN {a \in appointments : a.scheduledEnd <= query.end}
                  ELSE where1
        where3 == IF query.assignedTo # NoVal
                  THEN {a \in appointments : a.assignedTo = query.assignedTo}
                  ELSE where2
        where4 == IF query.status # NoStatus
                  THEN {a \in appointments : a.status = query.status}
                  ELSE where3
        results == IF query.customerId # NoVal
                   THEN {a \in appointments : a.customerId = query.customerId}
                   ELSE where4
    IN
    /\ UNCHANGED <<appointmentVars, notAppointmentVars>>
    /\ response' = Reply("listAppointments", 200, NoVal, {a.accountId : a \in results})

----------------------------------------------------------------------------
(* Product route handlers.  POST /api/products awaits its lookup before it *)
(* inserts, and other requests run in between.                             *)

notProductVars == <<quoteVars, customers, leads, visitVars, appointmentVars, otherVars>>

\* products.sku is declared .unique(): no two rows of the table, whatever
\* their account, hold the same sku.
SkuFree(sku) == \A p \in products : p.sku # sku

\* A request in progress is told from the others by its number.
FreeRequest ==
    CHOOSE n \in 1..(Cardinality(inflight) + 1) : \A r \in inflight : r.request # n

\* POST /api/products up to the answer of findFirst(sku, accountId)
BeginCreateProduct(user, data) ==
    /\ UNCHANGED <<products, nextProductId, notProductVars>>
    /\ IF \E p \in products : p.sku = data.sku /\ p.accountId = user.accountId
       THEN /\ response' \in Fail("createProduct",
                                  ConflictError("Product with this SKU already exists"),
                                  NoVal)
            /\ UNCHANGED inflight
       ELSE /\ inflight' = inflight \cup {[request |-> FreeRequest,
                                            accountId |-> user.accountId,
                                            sku |-> data.sku]}
            /\ UNCHANGED response

\* POST /api/products from db.insert(products) on
FinishCreateProduct(request) ==
    LET product == [id |-> nextProductId, accountId |-> request.accountId,
                    sku |-> request.sku]
    IN
    /\ UNCHANGED notProductVars
    /\ inflight' = inflight \ {request}
    /\ nextProductId' = nextProductId + 1
    /\ IF SkuFree(request.sku)
       THEN /\ products' = products \cup {product}
            /\ response' = Reply("createProduct", 201, product.id, {product.accountId})
       ELSE /\ response' \in Fail("createProduct", DbError, NoVal)
            /\ UNCHANGED products

\* DELETE /api/products/:id
DeleteProduct(user, id) ==
    /\ UNCHANGED <<nextProductId, inflight, notProductVars>>
    /\ IF ~\E p \in products : p.id = id /\ p.accountId = user.accountId
       THEN /\ response' \in Fail("deleteProduct", NotFoundError("Product not found"), id)
            /\ UNCHANGED products
       ELSE IF \E l \in quoteLines : l.productId = id
       THEN /\ response' \in Fail("deleteProduct", DbError, id)
            /\ UNCHANGED products
       ELSE /\ products' = {p \in products : p.id # id}
            /\ response' = Reply("deleteProduct", 200, id, {})

----------------------------------------------------------------------------
(* Tokens and the authentication middleware *)

\* JWT_EXPIRES_IN ('15m') and JWT_REFRESH_EXPIRES_IN ('7d') in ticks of
\* the token clock.
AccessTtl == 1
RefreshTtl == 2

\* What a request can carry as its token: nothing, a text that is no JWT,
\* or a JWT signed with some secret.
NoToken == [kind |-> "none", secret |-> "", payload |-> NoVal, exp |-> NoVal]
Malformed == [kind |-> "malformed", secret |-> "", payload |-> NoVal, exp |-> NoVal]

Sign(payload, secret, expiresIn) ==
    [kind |-> "jwt", secret |-> secret, payload |-> payload, exp |-> clock + expiresIn]

JwtPayloadOf(user) == [userId |-> user.id, accountId |-> user.accountId, role |-> user.role]

generateAccessToken(user) == Sign(JwtPayloadOf(user), "JWT_SECRET", AccessTtl)
generateRefreshToken(user) == Sign(JwtPayloadOf(user), "JWT_REFRESH_SECRET", RefreshTtl)

JwtVerifyIgnoringExpiry(token, secret) ==
    IF token.kind # "jwt" THEN "JsonWebTokenError"
    ELSE IF token.secret # secret THEN "JsonWebTokenError"
    ELSE "ok"

\* jwt.verify(token, secret): the signature is checked before the expiry.
JwtVerify(token, secret) ==
    IF token.kind # "jwt" THEN "JsonWebTokenError"
    ELSE IF token.secret # secret THEN "JsonWebTokenError"
    ELSE IF clock >= token.exp THEN "TokenExpiredError"
    ELSE "ok"

\* verifyAccessToken(token): TRUE when it returns the payload, FALSE when
\* it throws UnauthorizedError.
verifyAccessToken(token) == JwtVerify(token, "JWT_SECRET") = "ok"
verifyRefreshToken(token) == JwtVerify(token, "JWT_REFRESH_SECRET") = "ok"

\* What the state holds besides the answer.
storedVars == <<quoteVars, refVars, visitVars, appointmentVars, otherVars>>

\* What an answer hands to the client: the message and the tokens of its
\* body, which a script can read, and the httpOnly cookies it sets, which
\* the browser keeps and sends but no script can read.
Delivery(message, accessToken, refreshToken, cookies) ==
    [ message |-> message, accessToken |-> accessToken, refreshToken |-> refreshToken,
      cookies |-> cookies ]

NoCookies == [accessToken |-> NoToken, refreshToken |-> NoToken]

NoDelivery == Delivery("", NoToken, NoToken, NoCookies)

\* An error answer: the message of the error, no token, no cookie.
Denied(op, err) ==
    /\ response' \in Fail(op, err, NoVal)
    /\ delivered' = Delivery(err.message, NoToken, NoToken, NoCookies)
    /\ UNCHANGED tokens

\* POST /api/auth/login: the tokens go out as httpOnly cookies, the access
\* token also in the body.
Login(data) ==
    /\ UNCHANGED <<quoteVars, refVars, visitVars, appointmentVars, notSessionVars,
                   users, nextUserId, nextAccountId, clock>>
    /\ IF ~\E u \in users : u.email = data.email
       THEN Denied("login", UnauthorizedError("Invalid email or password"))
       ELSE LET user == CHOOSE u \in users : u.email = data.email
                accessToken == generateAccessToken(user)
                refreshToken == generateRefreshToken(user)
            IN  IF ~user.isActive
                THEN Denied("login", UnauthorizedError("Account is disabled"))
                ELSE IF user.password # data.password
                THEN Denied("login", UnauthorizedError("Invalid email or password"))
                ELSE /\ tokens' = tokens \cup {accessToken, refreshToken}
                     /\ response' = Reply("login", 200, user.id, {user.accountId})
                     /\ delivered' = Delivery("Login successful", accessToken, NoToken,
                                              [accessToken |-> accessToken,
                                               refreshToken |-> refreshToken])

\* POST /api/auth/refresh: refreshToken is what the request carries in
\* its X-Refresh-Token header (NoToken for no header); the cookies of the
\* request are not read.  The new tokens go out as cookies and in the body.
Refresh(refreshToken) ==
    /\ UNCHANGED <<quoteVars, refVars, visitVars, appointmentVars, notSessionVars,
                   users, nextUserId, nextAccountId, clock>>
    /\ IF refreshToken.kind = "none"
       THEN Denied("refresh", UnauthorizedError("Refresh token not provided"))
       ELSE IF ~verifyRefreshToken(refreshToken)
       THEN Denied("refresh", UnauthorizedError("Invalid refresh token"))
       ELSE IF ~\E u \in users : u.id = refreshToken.payload.userId /\ u.isActive
       THEN Denied("refresh", UnauthorizedError("User not found or inactive"))
       ELSE LET user == CHOOSE u \in users : u.id = refreshToken.payload.userId
                newAccessToken == generateAccessToken(user)
                newRefreshToken == generateRefreshToken(user)
            IN  /\ tokens' = tokens \cup {newAccessToken, newRefreshToken}
                /\ response' = Reply("refresh", 200, user.id, {user.accountId})
                /\ delivered' = Delivery("", newAccessToken, newRefreshToken,
                                         [accessToken |-> newAccessToken,
                                          refreshToken |-> newRefreshToken])

\* GET /api/auth/me behind authMiddleware
Me(jwtUser) ==
    /\ UNCHANGED storedVars
    /\ IF \E u \in users : u.id = jwtUser.userId /\ u.isActive
       THEN response' = Reply("me", 200, jwtUser.userId, {jwtUser.accountId})
       ELSE response' \in Fail("me", UnauthorizedError("User not found or inactive"), NoVal)

\* POST /api/auth/logout behind authMiddleware: the cookies are cleared,
\* nothing is stored.
Logout(user) ==
    /\ UNCHANGED storedVars
    /\ response' = Reply("logout", 200, user.userId, {})

\* Time passes.
Tick ==
    /\ clock < MaxClock
    /\ clock' = clock + 1
    /\ UNCHANGED <<quoteVars, refVars, visitVars, appointmentVars, extraVars,
                   users, nextUserId, nextAccountId, tokens, response>>

----------------------------------------------------------------------------
(* Initial state: the tables after two accounts registered and each added  *)
(* a customer, a lead and a product; no quote yet.                         *)

InitRows ==
    /\ quotes = {}
    /\ quoteLines = {}
    /\ nextQuoteId = 1
    /\ now = 1
    /\ year = 1
    /\ issued = {}
    /\ customers = Customers
    /\ leads = Leads
    /\ products = Products
    /\ nextProductId = 3
    /\ inflight = {}
    /\ visitSessions = {}
    /\ surveyModules = {}
    /\ appointments = {}
    /\ nextVisitId = 1
    /\ nextModuleId = 1
    /\ nextAppointmentId = 1
    /\ users = UserRows
    /\ nextUserId = 3
    /\ nextAccountId = 3
    /\ tokens = {}
    /\ clock = 0
    /\ boilerSpecifications = {}
    /\ nextBoilerId = 1
    /\ nextCustomerId = 3
    /\ listing = [page |-> 0, pageSize |-> 0, total |-> 0, totalPages |-> 0, data |-> <<>>]
    /\ confirmDestructiveActions = FALSE
    /\ isHolding = FALSE
    /\ isExecuting = FALSE
    /\ holdTimerRef = NoVal
    /\ timers = {}
    /\ nextTimerId = 1
    /\ time = 0
    /\ heldSince = NoVal
    /\ onClickCalls = 0
    /\ txs = {}
    /\ stream = [state |-> "none", pc |-> "none", connected |-> FALSE, onAbort |-> FALSE,
                 events |-> <<>>, dropped |-> 0]
    /\ keepAliveInterval = NoVal
    /\ streamTime = 0
    /\ delivered = NoDelivery
    /\ response = Reply("none", 0, NoVal, {})

\* The server runs in production.
InitTables == InitRows /\ nodeEnv = "production"

Line(description, quantity, unitPrice, discount) ==
    [ productId |-> NoVal, description |-> description, quantity |-> quantity,
      unitPrice |-> unitPrice, discount |-> discount ]

\* no line at all; one line of one pound; three items at five pence and a
\* seven pence discount on a five pence item (a negative line)
LineLists ==
    { <<>>,
      << Line("Boiler", 1, 10000, 0) >>,
      << Line("Filter", 3, 500, 0), Line("Valve", 1, 500, 700) >> }

QuoteIds == 1..MaxQuotes

----------------------------------------------------------------------------
(* The totals model: account 1 creates, updates, duplicates and deletes    *)
(* quotes, one request at a time, with every tax rate case; account 2      *)
(* sends the same requests for the same ids.                               *)

TotalsTaxRates == {NoVal, 0, 50}

TotalsCreateBodies ==
    { [customerId |-> 1, leadId |-> NoVal, taxRate |-> r, lines |-> ls] :
        r \in TotalsTaxRates, ls \in LineLists }

TotalsUpdateBodies ==
    { [taxRate |-> r, status |-> NoStatus, hasLines |-> TRUE, lines |-> ls] :
        r \in TotalsTaxRates, ls \in LineLists }
    \cup
    { [taxRate |-> r, status |-> NoStatus, hasLines |-> FALSE, lines |-> <<>>] :
        r \in TotalsTaxRates }

NextTotals ==
    \/ /\ nextQuoteId <= MaxQuotes
       /\ \E user \in Users, data \in TotalsCreateBodies : CreateQuote(user, data)
    \/ \E user \in Users, id \in QuoteIds, data \in TotalsUpdateBodies :
         UpdateQuote(user, id, data)
    \/ /\ nextQuoteId <= MaxQuotes
       /\ \E user \in Users, id \in QuoteIds : DuplicateQuote(user, id)
    \/ \E user \in Users, id \in QuoteIds : DeleteQuote(user, id)

SpecTotals == InitTables /\ [][NextTotals]_vars

----------------------------------------------------------------------------
(* The numbering model: both accounts create, duplicate and delete quotes  *)
(* with one fixed body, one request at a time, over two calendar years.    *)

NumberedIds == 1..MaxNumbered

NumberedBodies ==
    { [customerId |-> c, leadId |-> NoVal, taxRate |-> NoVal,
       lines |-> << Line("Boiler", 1, 10000, 0) >>] : c \in {1, 2} }

NextNumbering ==
    \/ /\ nextQuoteId <= MaxNumbered
       /\ \E user \in Users, data \in NumberedBodies : CreateQuote(user, data)
    \/ /\ nextQuoteId <= MaxNumbered
       /\ \E user \in Users, id \in NumberedIds : DuplicateQuote(user, id)
    \/ \E user \in Users, id \in NumberedIds : DeleteQuote(user, id)
    \/ NewYear

SpecNumbering == InitTables /\ [][NextNumbering]_vars

----------------------------------------------------------------------------
(* The lines model: quotes of account 1 with and without lines in the      *)
(* request, default tax rate.                                              *)

LinesCreateBodies ==
    { [customerId |-> 1, leadId |-> NoVal, taxRate |-> NoVal, lines |-> ls] :
        ls \in LineLists }

LinesUpdateBodies ==
    { [taxRate |-> NoVal, status |-> NoStatus, hasLines |-> TRUE, lines |-> ls] :
        ls \in LineLists }
    \cup
    { [taxRate |-> NoVal, status |-> NoStatus, hasLines |-> FALSE, lines |-> <<>>] }

NextLines ==
    \/ /\ nextQuoteId <= MaxQuotes
       /\ \E user \in Users, data \in LinesCreateBodies : CreateQuote(user, data)
    \/ \E user \in Users, id \in QuoteIds, data \in LinesUpdateBodies :
          UpdateQuote(user, id, data)
    \/ /\ nextQuoteId <= MaxQuotes
       /\ \E user \in Users, id \in QuoteIds : DuplicateQuote(user, id)
    \/ \E user \in Users, id \in QuoteIds : DeleteQuote(user, id)

SpecLines == InitTables /\ [][NextLines]_vars

----------------------------------------------------------------------------
(* The lifecycle model: a quote of account 1 is created, changed, sent,    *)
(* accepted and rejected in any order, by its account and by account 2.    *)

StampedIds == 1..MaxStamped

StampedUpdateBodies ==
    { [taxRate |-> NoVal, status |-> st, hasLines |-> FALSE, lines |-> <<>>] :
        st \in {NoStatus, "draft", "viewed", "expired"} }

STick ==
    /\ now <= MaxStamped + 1
    /\ now' = now + 1
    /\ UNCHANGED <<quotes, quoteLines, nextQuoteId, year, issued, notQuoteVars, response>>

NextLifecycle ==
    \/ /\ nextQuoteId <= MaxStamped
       /\ \E user \in Users, data \in LinesCreateBodies : CreateQuote(user, data)
    \/ \E user \in Users, id \in StampedIds, data \in StampedUpdateBodies :
         UpdateQuote(user, id, data)
    \/ \E user \in Users, id \in StampedIds : SendQuote(user, id)
    \/ \E user \in Users, id \in StampedIds : AcceptQuote(user, id)
    \/ \E user \in Users, id \in StampedIds : RejectQuote(user, id)
    \/ STick

SpecLifecycle == InitTables /\ [][NextLifecycle]_vars

----------------------------------------------------------------------------
(* The visits model: both accounts start, change and delete visits and     *)
(* their modules, book appointments, and read and list them, each for its  *)
(* own and for the other account's ids.                                    *)

VisitIds == 1..MaxVisits
ModuleIds == 1..MaxModules
CustomerIds == {c.id : c \in Customers}

VisitBodies == { [customerId |-> c] : c \in CustomerIds }

VisitUpdateBodies == { [status |-> st] : st \in {NoStatus, "completed"} }

VisitQueries ==
    { [customerId |-> c, surveyorId |-> u, status |-> st] :
        c \in {NoVal} \cup CustomerIds,
        u \in {NoVal, 1},
        st \in {NoStatus, "in_progress", "completed"} }

AppointmentBodies ==
    { [customerId |-> c, quoteId |-> NoVal, assignedTo |-> NoVal, scheduledStart |-> 1,
       scheduledEnd |-> 2] : c \in CustomerIds }

AppointmentQueries ==
    { [start |-> s, end |-> e, assignedTo |-> NoVal, status |-> st, customerId |-> c] :
        s \in {NoVal, 1}, e \in {NoVal, 2},
        st \in {NoStatus, "scheduled"},
        c \in {NoVal} \cup CustomerIds }

NextVisits ==
    \/ \E user \in Users, id \in CustomerIds : GetCustomer(user, id)
    \/ /\ nextVisitId <= MaxVisits
       /\ \E user \in Users, data \in VisitBodies : CreateVisit(user, data)
    \/ \E user \in Users, id \in VisitIds : GetVisit(user, id)
    \/ \E user \in Users, id \in VisitIds, data \in VisitUpdateBodies :
         UpdateVisit(user, id, data)
    \/ \E user \in Users, id \in VisitIds : DeleteVisit(user, id)
    \/ /\ nextModuleId <= MaxModules
       /\ \E user \in Users, id \in VisitIds : CreateModule(user, id)
    \/ \E user \in Users, id \in VisitIds, moduleId \in ModuleIds :
         DeleteModule(user, id, moduleId)
    \/ \E user \in Users, query \in VisitQueries : ListVisits(user, query)
    \/ /\ nextAppointmentId <= MaxAppointments
       /\ \E user \in Users, data \in AppointmentBodies : CreateAppointment(user, data)
    \/ \E user \in Users, query \in AppointmentQueries : ListAppointments(user, query)

SpecVisits == InitTables /\ [][NextVisits]_vars

----------------------------------------------------------------------------
(* The disclosure model: both accounts create quotes that name leads and   *)
(* products of either account, and read them back.                         *)

RefLine(productId) ==
    [ productId |-> productId, description |-> "Boiler", quantity |-> 1,
      unitPrice |-> 10000, discount |-> 0 ]

DisclosureBodies ==
    { [customerId |-> c, leadId |-> l, taxRate |-> NoVal, lines |-> << RefLine(p) >>] :
        c \in CustomerIds,
        l \in {NoVal} \cup {x.id : x \in Leads},
        p \in {NoVal} \cup {x.id : x \in Products} }

NextDisclosure ==
    \/ /\ nextQuoteId <= MaxQuotes
       /\ \E user \in Users, data \in DisclosureBodies : CreateQuote(user, data)
    \/ \E user \in Users, id \in QuoteIds : GetQuote(user, id)
    \/ \E user \in Users, id \in CustomerIds : GetCustomer(user, id)
    \/ \E user \in Users, id \in QuoteIds : DeleteQuote(user, id)

SpecDisclosure == InitTables /\ [][NextDisclosure]_vars

----------------------------------------------------------------------------
(* The products model: both accounts create products under three SKUs,     *)
(* their requests interleaving, and delete them.                           *)

Skus == {"X1", "Y1", "Z1"}
ProductIds == 1..MaxProducts
ProductBodies == { [sku |-> sku] : sku \in Skus }

NextProducts ==
    \/ /\ Cardinality(inflight) < MaxInflight
       /\ nextProductId + Cardinality(inflight) <= MaxProducts
       /\ \E user \in Users, data \in ProductBodies : BeginCreateProduct(user, data)
    \/ \E request \in inflight : FinishCreateProduct(request)
    \/ \E user \in Users, id \in ProductIds : DeleteProduct(user, id)

SpecProducts == InitTables /\ [][NextProducts]_vars

----------------------------------------------------------------------------
(* The authentication model: the two admins log in and refresh, time       *)
(* passes, and requests reach the quote, customer and auth routes with     *)
(* every kind of token.                                                    *)

\* JWTs signed with a secret the server does not use.
ForgedTokens ==
    { [kind |-> "jwt", secret |-> "other", payload |-> JwtPayloadOf(u), exp |-> MaxClock + 1] :
        u \in UserRows }

PresentedTokens == {NoToken, Malformed} \cup ForgedTokens \cup tokens

LoginBodies ==
    { [email |-> e, password |-> pw] :
        e \in {"a@one", "b@two"}, pw \in {"Secret-one-1", "Secret-two-2"} }

AuthCreateQuote(user) ==
    \E data \in LinesCreateBodies : data.lines # <<>> /\ CreateQuote(user, data)

AuthDeleteQuote(user) == \E id \in StampedIds : DeleteQuote(user, id)

AuthGetCustomer(user) == \E id \in CustomerIds : GetCustomer(user, id)

\* The handler the router runs for a route once the middleware called
\* next().
RouteHandler(op, user) ==
    CASE op = "create" -> AuthCreateQuote(user)
      [] op = "delete" -> AuthDeleteQuote(user)
      [] op = "getCustomer" -> AuthGetCustomer(user)
      [] op = "me" -> Me(user)
      [] op = "logout" -> Logout(user)

AuthRoutes == {"create", "delete", "getCustomer", "me", "logout"}

\* authMiddleware in front of the handler of route op
authMiddleware(op, token) ==
    IF token.kind = "none"
    THEN /\ response' \in Fail(op, UnauthorizedError("No authentication token provided"),
                              NoVal)
         /\ UNCHANGED storedVars
    ELSE IF ~verifyAccessToken(token)
    THEN /\ response' \in Fail(op, UnauthorizedError("Invalid access token"), NoVal)
         /\ UNCHANGED storedVars
    ELSE RouteHandler(op, token.payload)

NextAuth ==
    \/ /\ Cardinality(tokens) + 2 <= MaxTokens
       /\ \E data \in LoginBodies : Login(data)
    \/ /\ Cardinality(tokens) + 2 <= MaxTokens
       /\ \E token \in PresentedTokens : Refresh(token)
    \/ /\ nextQuoteId <= MaxStamped
       /\ \E token \in PresentedTokens : authMiddleware("create", token)
    \/ \E token \in PresentedTokens : authMiddleware("delete", token)
    \/ \E token \in PresentedTokens : authMiddleware("getCustomer", token)
    \/ \E token \in PresentedTokens : authMiddleware("me", token)
    \/ \E token \in PresentedTokens : authMiddleware("logout", token)
    \/ Tick

SpecAuth == InitTables /\ [][NextAuth]_vars

----------------------------------------------------------------------------
(* Quote totals *)

RECURSIVE SumLineTotals(_)
SumLineTotals(rows) ==
    IF rows = {} THEN 0
    ELSE LET row == CHOOSE r \in rows : TRUE
         IN  row.lineTotal + SumLineTotals(rows \ {row})

QuoteOfId(table, id) == CHOOSE q \in table : q.id = id

\* C1: a quote created through POST /api/quotes with at least one valid
\* line and a tax rate R in 0..100 (R = 0 included, R = 20 when the body
\* gives none) is stored with taxRate = R, subtotal = the sum of
\* quantity * unitPrice - discount over the lines, taxAmount = subtotal * R
\* / 100 and total = subtotal + taxAmount (each as the numeric(10,2) column
\* holds it).
C1_CreateStoresRequestedTax ==
    [][ \A user \in Users, data \in TotalsCreateBodies :
          (CreateQuote(user, data) /\ response'.status = 201) =>
             LET q == QuoteOfId(quotes', response'.id)
                 R == ParsedTaxRate(data)
             IN  /\ q.taxRate = R
                 /\ q.subtotal = Numeric2(SumLines(data.lines))
                 /\ q.taxAmount = Numeric2((q.subtotal * R) \div 100)
                 /\ q.total = q.subtotal + q.taxAmount ]_vars

\* C2: in every reachable state every stored quote has subtotal = the sum
\* of the lineTotal of its stored lines, taxAmount = subtotal * taxRate /
\* 100 and total = subtotal + taxAmount.
C2_StoredTotalsConsistent ==
    \A q \in quotes :
        /\ q.subtotal = SumLineTotals(LinesOf(q.id))
        /\ q.taxAmount = Numeric2((q.subtotal * q.taxRate) \div 100)
        /\ q.total = q.subtotal + q.taxAmount

----------------------------------------------------------------------------
(* Tenant isolation *)

ForeignVisit(user, id) ==
    \E v \in visitSessions : v.id = id /\ v.accountId # user.accountId

ForeignCustomer(user, id) ==
    \E c \in customers : c.id = id /\ c.accountId # user.accountId

\* C3: a get, update, delete or sub-resource request of a caller of one
\* account for the id of a record another account owns (a customer, a
\* visit, a module of a visit) is answered 404 and leaves the tables as
\* they were.
C3_ForeignIdAnswered404 ==
    [][ \A user \in Users :
          /\ \A id \in CustomerIds :
                (ForeignCustomer(user, id) /\ GetCustomer(user, id)) =>
                    response'.status = 404
          /\ \A id \in VisitIds :
                ( /\ ForeignVisit(user, id)
                  /\ \/ GetVisit(user, id)
                     \/ \E data \in VisitUpdateBodies : UpdateVisit(user, id, data)
                     \/ DeleteVisit(user, id)
                     \/ CreateModule(user, id)
                     \/ \E moduleId \in ModuleIds : DeleteModule(user, id, moduleId) ) =>
                    /\ response'.status = 404
                    /\ UNCHANGED <<visitSessions, surveyModules>> ]_vars

\* C4: the body of no answer to a caller's quote or customer request holds
\* a record of another account, the embedded customer, lead, line products
\* and creating user included.
C4_NoForeignRecordInBody ==
    [][ \A user \in Users :
          ( \/ \E data \in DisclosureBodies : CreateQuote(user, data)
            \/ \E id \in QuoteIds : GetQuote(user, id)
            \/ \E id \in QuoteIds : DeleteQuote(user, id)
            \/ \E id \in CustomerIds : GetCustomer(user, id) ) =>
              response'.owners \subseteq {user.accountId} ]_vars

\* C5: GET /api/visits and GET /api/appointments answer with records of the
\* caller's account only, whatever filters the query gives.
C5_ListsStayInAccount ==
    [][ \A user \in Users :
          ( \/ \E query \in VisitQueries : ListVisits(user, query)
            \/ \E query \in AppointmentQueries : ListAppointments(user, query) ) =>
              response'.owners \subseteq {user.accountId} ]_vars

----------------------------------------------------------------------------
(* Quote numbers *)

SeqOf(quoteNumber) == parseInt(quoteNumber.seq)

StoredThisYear(accountId) ==
    {q \in quotes : q.accountId = accountId /\ q.quoteNumber.year = year}

IssuedThisYear(accountId) ==
    {n \in issued : n[1] = accountId /\ n[2].year = year}

OwnQuote(user, id) == \E q \in quotes : q.id = id /\ q.accountId = user.accountId

OwnCustomer(user, id) == \E c \in customers : c.id = id /\ c.accountId = user.accountId

\* C6: with one request at a time, an account that holds N - 1 quotes of
\* the current year and deleted none gets quote number N of that year,
\* padded to three digits, for its next created or duplicated quote: 001
\* for its first, whatever quotes other accounts hold.
C6_NthQuoteGetsNumberN ==
    [][ \A user \in Users :
          LET N == Cardinality(StoredThisYear(user.accountId)) + 1 IN
          ( /\ Cardinality(IssuedThisYear(user.accountId)) = N - 1
            /\ \/ \E data \in NumberedBodies :
                     OwnCustomer(user, data.customerId) /\ CreateQuote(user, data)
               \/ \E id \in NumberedIds :
                     OwnQuote(user, id) /\ DuplicateQuote(user, id) ) =>
              /\ response'.status = 201
              /\ QuoteOfId(quotes', response'.id).quoteNumber = FormatQuoteNumber(year, N)
    ]_vars

NumbersUniqueInAccount ==
    \A q1, q2 \in quotes :
        (q1.accountId = q2.accountId /\ q1.quoteNumber = q2.quoteNumber) => q1 = q2

\* C7: with one request at a time, no two stored quotes of an account share
\* a quote number, and the sequence number of each newly created or
\* duplicated quote is greater than every sequence number issued to the
\* account in that year before, deleted quotes included.
C7_NumbersUniqueAndIncreasing ==
    /\ []NumbersUniqueInAccount
    /\ [][ \A user \in Users :
             ( /\ \/ \E data \in NumberedBodies : CreateQuote(user, data)
                  \/ \E id \in NumberedIds : DuplicateQuote(user, id)
               /\ response'.status = 201 ) =>
                 \A n \in IssuedThisYear(user.accountId) :
                    SeqOf(n[2]) < SeqOf(QuoteOfId(quotes', response'.id).quoteNumber)
       ]_vars

----------------------------------------------------------------------------
(* Products *)

SkusUniqueInAccount ==
    \A p1, p2 \in products :
        (p1.accountId = p2.accountId /\ p1.sku = p2.sku) => p1 = p2

\* C8: no account ever holds two products of one SKU; a creation whose SKU
\* the caller's account already holds is answered 409 and inserts nothing,
\* also when another creation of that SKU got in between its lookup and its
\* insert; a creation whose SKU only another account holds succeeds.
C8_SkuScopedToAccount ==
    /\ []SkusUniqueInAccount
    /\ [][ /\ \A user \in Users, data \in ProductBodies :
                ( /\ \E p \in products : p.sku = data.sku /\ p.accountId = user.accountId
                  /\ BeginCreateProduct(user, data) ) =>
                    response'.status = 409 /\ UNCHANGED products
           /\ \A request \in inflight :
                FinishCreateProduct(request) =>
                  IF \E p \in products : p.sku = request.sku
                                           /\ p.accountId = request.accountId
                  THEN response'.status = 409 /\ UNCHANGED products
                  ELSE response'.status = 201
       ]_vars

----------------------------------------------------------------------------
(* Duplicating and the lines of a quote *)

\* the columns of a line that a copy keeps
LineContent(l) ==
    [ productId |-> l.productId, sortOrder |-> l.sortOrder,
      description |-> l.description, quantity |-> l.quantity,
      unitPrice |-> l.unitPrice, discount |-> l.discount, lineTotal |-> l.lineTotal ]

\* C9: duplicating a quote of the caller's account stores a new draft quote
\* with a newly generated number and the source's stored subtotal, taxRate,
\* taxAmount, total and line values, and leaves the source quote and its
\* lines as they were.
C9_DuplicateCopiesVerbatim ==
    [][ \A user \in Users, id \in NumberedIds :
          (OwnQuote(user, id) /\ DuplicateQuote(user, id)) =>
             /\ response'.status = 201
             /\ LET source == QuoteOfId(quotes, id)
                    copy == QuoteOfId(quotes', response'.id)
                IN  /\ copy \notin quotes
                    /\ copy.status = "draft"
                    /\ \A q \in quotes : q.accountId = copy.accountId =>
                                            q.quoteNumber # copy.quoteNumber
                    /\ copy.subtotal = source.subtotal
                    /\ copy.taxRate = source.taxRate
                    /\ copy.taxAmount = source.taxAmount
                    /\ copy.total = source.total
                    /\ {LineContent(l) : l \in {x \in quoteLines' : x.quoteId = copy.id}}
                         = {LineContent(l) : l \in LinesOf(id)}
                    /\ source \in quotes'
                    /\ {x \in quoteLines' : x.quoteId = id} = LinesOf(id)
    ]_vars

EveryQuoteHasALine == \A q \in quotes : LinesOf(q.id) # {}

\* C10: a create request without lines is answered with a validation error
\* and stores nothing; a created quote starts as a draft with at least one
\* line; and through creates, updates and duplicates every stored quote
\* keeps at least one line.
C10_QuotesKeepALine ==
    /\ []EveryQuoteHasALine
    /\ [][ \A user \in Users, data \in LinesCreateBodies :
             CreateQuote(user, data) =>
               IF data.lines = <<>>
               THEN /\ response'.status = 400
                    /\ UNCHANGED <<quotes, quoteLines>>
               ELSE response'.status = 201 =>
                      /\ QuoteOfId(quotes', response'.id).status = "draft"
                      /\ \E l \in quoteLines' : l.quoteId = response'.id
       ]_vars

\* C10 witness: a create request without lines has just been refused
\* while a quote with two lines, written by an update or a create, is
\* stored.
C10_Witness ==
    /\ response.op = "create"
    /\ response.status = 400
    /\ \E q \in quotes : Cardinality(LinesOf(q.id)) = 2

----------------------------------------------------------------------------
(* Authentication *)

\* no token, a text that is no JWT, a JWT signed with another secret than
\* the access-token secret, or an expired one
NotAnAccessToken(token) ==
    \/ token.kind # "jwt"
    \/ token.secret # "JWT_SECRET"
    \/ token.exp <= clock

\* C11: a request to a route behind the auth middleware that carries no
\* token, a malformed token, an expired token or a token not signed with
\* the access-token secret is answered 401, and nothing stored changes.
C11_AuthFailsClosed ==
    [][ \A token \in PresentedTokens :
          ( /\ NotAnAccessToken(token)
            /\ \E op \in AuthRoutes : authMiddleware(op, token) ) =>
             /\ response'.status = 401
             /\ UNCHANGED storedVars ]_vars

\* C11 witness: a delete has just been refused with 401 while a quote is
\* stored and the server has signed access tokens, all of them expired.
C11_Witness ==
    /\ response.op = "delete"
    /\ response.status = 401
    /\ quotes # {}
    /\ \E t \in tokens : t.secret = "JWT_SECRET"
    /\ \A t \in tokens : t.secret = "JWT_SECRET" => t.exp <= clock

----------------------------------------------------------------------------
(* Team members and boiler specifications.  The six writing routes check   *)
(* the caller's role themselves, before anything else.                     *)

MaxUsers == 3
MaxBoilers == 1

notUserVars == <<quoteVars, refVars, visitVars, appointmentVars, extraVars,
                 nextAccountId, tokens, clock>>
notBoilerVars == <<quoteVars, refVars, visitVars, appointmentVars, authVars, pageVars,
                   laterVars>>

\* createUserSchema: role one of four, 'surveyor' when absent.
UserRoles == {"admin", "surveyor", "office", "readonly"}
createUserSchema(data) == data.role = NoStatus \/ data.role \in UserRoles
ParsedRole(data) == IF data.role = NoStatus THEN "surveyor" ELSE data.role

\* updateUserSchema: role and isActive optional; an optional boolean is
\* the empty list or the list of its value.
updateUserSchema(data) ==
    /\ data.role = NoStatus \/ data.role \in UserRoles
    /\ data.isActive \in {<<>>, <<TRUE>>, <<FALSE>>}

\* .set({...data}): a field that is absent stays as it is.
SetUser(u, data) ==
    [u EXCEPT !.role = IF data.role = NoStatus THEN @ ELSE data.role,
              !.isActive = IF data.isActive = <<>> THEN @ ELSE data.isActive[1]]

\* POST /api/users
CreateUser(user, data) ==
    /\ UNCHANGED notUserVars
    /\ IF ~createUserSchema(data)
       THEN /\ response' \in Fail("createUser", ValidationError("Validation failed"), NoVal)
            /\ UNCHANGED <<users, nextUserId>>
       ELSE IF user.role # "admin"
       THEN /\ response' \in Fail("createUser", AppError(Text, 403), NoVal)
            /\ UNCHANGED <<users, nextUserId>>
       ELSE IF \E u \in users : u.email = data.email
       THEN /\ response' \in Fail("createUser", AppError(Text, 400), NoVal)
            /\ UNCHANGED <<users, nextUserId>>
       ELSE /\ users' = users \cup
                  { [id |-> nextUserId, accountId |-> user.accountId, email |-> data.email,
                     role |-> ParsedRole(data), isActive |-> TRUE,
                     password |-> data.password] }
            /\ nextUserId' = nextUserId + 1
            /\ response' = Reply("createUser", 201, nextUserId, {user.accountId})

\* PUT /api/users/:id
UpdateUser(user, id, data) ==
    /\ UNCHANGED <<notUserVars, nextUserId>>
    /\ IF ~updateUserSchema(data)
       THEN /\ response' \in Fail("updateUser", ValidationError("Validation failed"), id)
            /\ UNCHANGED users
       ELSE IF user.role # "admin"
       THEN /\ response' \in Fail("updateUser", AppError(Text, 403), id)
            /\ UNCHANGED users
       ELSE IF ~\E u \in users : u.id = id /\ u.accountId = user.accountId
       THEN /\ response' \in Fail("updateUser", AppError(Text, 404), id)
            /\ UNCHANGED users
       ELSE /\ users' = { IF u.id = id THEN SetUser(u, data) ELSE u : u \in users }
            /\ response' = Reply("updateUser", 200, id, {user.accountId})

\* DELETE /api/users/:id.  The handler compares the id with user.id, a
\* field the token payload (userId, accountId, email, role) does not
\* have: the comparison with undefined is never true.
DeactivateUser(user, id) ==
    /\ UNCHANGED <<notUserVars, nextUserId>>
    /\ IF user.role # "admin"
       THEN /\ response' \in Fail("deactivateUser", AppError(Text, 403), id)
            /\ UNCHANGED users
       ELSE IF ~\E u \in users : u.id = id /\ u.accountId = user.accountId
       THEN /\ response' \in Fail("deactivateUser", AppError(Text, 404), id)
            /\ UNCHANGED users
       ELSE /\ users' = { IF u.id = id THEN [u EXCEPT !.isActive = FALSE] ELSE u :
                            u \in users }
            /\ response' = Reply("deactivateUser", 200, id, {user.accountId})

\* createBoilerSchema: manufacturer and model of at least one character
\* (the empty text stands for a text that is too short); its partial()
\* lets either be absent.
createBoilerSchema(data) == data.manufacturer # "" /\ data.model # ""
updateBoilerSchema(data) == data.model = NoStatus \/ data.model # ""

\* POST /api/boilers
CreateBoiler(user, data) ==
    /\ UNCHANGED notBoilerVars
    /\ IF ~createBoilerSchema(data)
       THEN /\ response' \in Fail("createBoiler", ValidationError("Validation failed"), NoVal)
            /\ UNCHANGED boilerVars
       ELSE IF user.role # "admin"
       THEN /\ response' \in Fail("createBoiler", AppError(Text, 403), NoVal)
            /\ UNCHANGED boilerVars
       ELSE /\ boilerSpecifications' = boilerSpecifications \cup
                  { [id |-> nextBoilerId, manufacturer |-> data.manufacturer,
                     model |-> data.model, isActive |-> TRUE] }
            /\ nextBoilerId' = nextBoilerId + 1
            /\ response' = Reply("createBoiler", 201, nextBoilerId, {})

\* PUT /api/boilers/:id
UpdateBoiler(user, id, data) ==
    /\ UNCHANGED <<notBoilerVars, nextBoilerId>>
    /\ IF ~updateBoilerSchema(data)
       THEN /\ response' \in Fail("updateBoiler", ValidationError("Validation failed"), id)
            /\ UNCHANGED boilerSpecifications
       ELSE IF user.role # "admin"
       THEN /\ response' \in Fail("updateBoiler", AppError(Text, 403), id)
            /\ UNCHANGED boilerSpecifications
       ELSE IF ~\E b \in boilerSpecifications : b.id = id
       THEN /\ response' \in Fail("updateBoiler", AppError(Text, 404), id)
            /\ UNCHANGED boilerSpecifications
       ELSE /\ boilerSpecifications' =
                  { IF b.id = id /\ data.model # NoStatus
                    THEN [b EXCEPT !.model = data.model] ELSE b :
                      b \in boilerSpecifications }
            /\ response' = Reply("updateBoiler", 200, id, {})

\* DELETE /api/boilers/:id
DeactivateBoiler(user, id) ==
    /\ UNCHANGED <<notBoilerVars, nextBoilerId>>
    /\ IF user.role # "admin"
       THEN /\ response' \in Fail("deactivateBoiler", AppError(Text, 403), id)
            /\ UNCHANGED boilerSpecifications
       ELSE IF ~\E b \in boilerSpecifications : b.id = id
       THEN /\ response' \in Fail("deactivateBoiler", AppError(Text, 404), id)
            /\ UNCHANGED boilerSpecifications
       ELSE /\ boilerSpecifications' =
                  { IF b.id = id THEN [b EXCEPT !.isActive = FALSE] ELSE b :
                      b \in boilerSpecifications }
            /\ response' = Reply("deactivateBoiler", 200, id, {})

----------------------------------------------------------------------------
(* The role model: the callers are the users of the table, each with the   *)
(* role of its row; admins add team members of other roles.                *)

Callers == { [userId |-> u.id, accountId |-> u.accountId, role |-> u.role] : u \in users }
UserIds == 1..MaxUsers
BoilerIds == 1..MaxBoilers

CreateUserBodies ==
    { [email |-> e, password |-> "Secret-new-12", role |-> r] :
        e \in {"a@one", "c@one"}, r \in {NoStatus, "office"} }

UpdateUserBodies ==
    { [role |-> r, isActive |-> a] : r \in {NoStatus, "admin"}, a \in {<<>>, <<TRUE>>} }

CreateBoilerBodies ==
    { [manufacturer |-> "Acme", model |-> m] : m \in {"", "A1"} }

UpdateBoilerBodies == { [model |-> m] : m \in {NoStatus, "B2"} }

NextRoles ==
    \/ /\ nextUserId <= MaxUsers
       /\ \E user \in Callers, data \in CreateUserBodies : CreateUser(user, data)
    \/ \E user \in Callers, id \in UserIds, data \in UpdateUserBodies :
         UpdateUser(user, id, data)
    \/ \E user \in Callers, id \in UserIds : DeactivateUser(user, id)
    \/ /\ nextBoilerId <= MaxBoilers
       /\ \E user \in Callers, data \in CreateBoilerBodies : CreateBoiler(user, data)
    \/ \E user \in Callers, id \in BoilerIds, data \in UpdateBoilerBodies :
         UpdateBoiler(user, id, data)
    \/ \E user \in Callers, id \in BoilerIds : DeactivateBoiler(user, id)

SpecRoles == InitTables /\ [][NextRoles]_vars

----------------------------------------------------------------------------
(* Admin gating *)

GatedRequest(user) ==
    \/ \E data \in CreateUserBodies : CreateUser(user, data)
    \/ \E id \in UserIds, data \in UpdateUserBodies : UpdateUser(user, id, data)
    \/ \E id \in UserIds : DeactivateUser(user, id)
    \/ \E data \in CreateBoilerBodies : createBoilerSchema(data) /\ CreateBoiler(user, data)
    \/ \E id \in BoilerIds, data \in UpdateBoilerBodies : UpdateBoiler(user, id, data)
    \/ \E id \in BoilerIds : DeactivateBoiler(user, id)

\* C12: a request to create, update or deactivate a user or a boiler
\* specification by a caller whose role is not admin is answered 403 and
\* changes no user and no boiler specification.
C12_NonAdminForbidden ==
    [][ \A user \in Callers :
          (user.role # "admin" /\ GatedRequest(user)) =>
              /\ response'.status = 403
              /\ UNCHANGED <<users, boilerSpecifications>> ]_vars

\* The part of C12 the handlers keep: no write by a caller who is no admin.
NonAdminWritesNothing ==
    [][ \A user \in Callers :
          (user.role # "admin" /\ GatedRequest(user)) =>
              UNCHANGED <<users, boilerSpecifications>> ]_vars

----------------------------------------------------------------------------
(* The appointment model: appointments are created with any pair of times, *)
(* rescheduled and deleted.                                                *)

MaxTime == 3
Times == 1..MaxTime
AppointmentIds == 1..MaxAppointments

ScheduleBodies ==
    { [customerId |-> c, quoteId |-> NoVal, assignedTo |-> NoVal,
       scheduledStart |-> s, scheduledEnd |-> e] :
        c \in CustomerIds, s \in Times, e \in Times }

RescheduleBodies ==
    { [quoteId |-> NoVal, scheduledStart |-> s, scheduledEnd |-> e] :
        s \in Times \cup {NoVal}, e \in Times \cup {NoVal} }

NextAppointments ==
    \/ /\ nextAppointmentId <= MaxAppointments
       /\ \E user \in Users, data \in ScheduleBodies : CreateAppointment(user, data)
    \/ \E user \in Users, id \in AppointmentIds, data \in RescheduleBodies :
         UpdateAppointment(user, id, data)
    \/ \E user \in Users, id \in AppointmentIds : DeleteAppointment(user, id)

SpecAppointments == InitTables /\ [][NextAppointments]_vars

----------------------------------------------------------------------------
(* Appointment times *)

EndsAfterStart == \A a \in appointments : a.scheduledEnd > a.scheduledStart

\* C13: a create request whose scheduledEnd is not after its scheduledStart
\* is answered 400 and stores nothing, and every stored appointment has its
\* scheduledEnd after its scheduledStart, whatever was created and updated.
C13_AppointmentsEndAfterStart ==
    /\ []EndsAfterStart
    /\ [][ \A user \in Users, data \in ScheduleBodies :
             (data.scheduledEnd <= data.scheduledStart /\ CreateAppointment(user, data)) =>
                 /\ response'.status = 400
                 /\ UNCHANGED appointments ]_vars

----------------------------------------------------------------------------
(* Paginated lists *)

MaxCustomers == 3
MaxPage == 2
MaxPageSize == 2

\* paginationSchema: page an integer >= 1, pageSize an integer in 1..100.
paginationSchema(query) == query.page >= 1 /\ query.pageSize \in 1..100

Min(a, b) == IF a < b THEN a ELSE b

\* Math.ceil(count / pageSize)
Ceil(count, pageSize) == (count + pageSize - 1) \div pageSize

\* The ids of rows, latest first (orderBy desc createdAt; a serial id grows
\* with the time of creation).
RECURSIVE LatestFirst(_)
LatestFirst(ids) ==
    IF ids = {} THEN <<>>
    ELSE LET top == CHOOSE i \in ids : \A j \in ids : j <= i
         IN  <<top>> \o LatestFirst(ids \ {top})

\* .limit(pageSize).offset(offset) of an ordered result
LimitOffset(ordered, pageSize, offset) ==
    LET k == Min(pageSize, Len(ordered) - offset)
    IN  IF k <= 0 THEN <<>> ELSE [i \in 1..k |-> ordered[offset + i]]

\* POST /api/customers
CreateCustomer(user, data) ==
    /\ customers' = customers \cup
          { [id |-> nextCustomerId, accountId |-> user.accountId,
             propertyType |-> data.propertyType] }
    /\ nextCustomerId' = nextCustomerId + 1
    /\ response' = Reply("createCustomer", 201, nextCustomerId, {user.accountId})
    /\ UNCHANGED <<quoteVars, leads, products, nextProductId, inflight, visitVars,
                   appointmentVars, authVars, boilerVars, laterVars, listing>>

\* GET /api/customers: the count and the page are taken under the same
\* conditions.
ListCustomers(user, query) ==
    /\ UNCHANGED <<quoteVars, refVars, visitVars, appointmentVars, authVars, boilerVars,
                   laterVars, nextCustomerId>>
    /\ IF ~paginationSchema(query)
       THEN /\ response' \in Fail("listCustomers", ValidationError("Validation failed"), NoVal)
            /\ UNCHANGED listing
       ELSE LET offset == (query.page - 1) * query.pageSize
                conditions == { c \in customers :
                                  /\ c.accountId = user.accountId
                                  /\ query.propertyType # NoStatus =>
                                        c.propertyType = query.propertyType }
                count == Cardinality(conditions)
                results == LimitOffset(LatestFirst({c.id : c \in conditions}),
                                       query.pageSize, offset)
            IN  /\ listing' = [ page |-> query.page, pageSize |-> query.pageSize,
                                total |-> count,
                                totalPages |-> Ceil(count, query.pageSize),
                                data |-> results ]
                /\ response' = Reply("listCustomers", 200, NoVal,
                                     IF results = <<>> THEN {} ELSE {user.accountId})

\* z.coerce.boolean().default(true) on a query parameter: Boolean(text) is
\* true for every text but the empty one; true when the parameter is
\* absent.
CoerceBoolean(param) == IF param = NoStatus THEN TRUE ELSE param # ""

\* GET /api/boilers/search: each where() replaces the one before it, so
\* the rows are those of the last one, isActive = the coerced parameter;
\* count(*) is taken over the whole table, with no condition.
SearchBoilers(user, query) ==
    /\ UNCHANGED <<quoteVars, refVars, visitVars, appointmentVars, authVars, boilerVars,
                   laterVars, nextCustomerId>>
    /\ IF ~paginationSchema(query)
       THEN /\ response' \in Fail("searchBoilers", DbError, NoVal)
            /\ UNCHANGED listing
       ELSE LET offset == (query.page - 1) * query.pageSize
                isActive == CoerceBoolean(query.isActive)
                where0 == boilerSpecifications
                where1 == IF query.manufacturer # NoStatus
                          THEN {b \in boilerSpecifications :
                                  b.manufacturer = query.manufacturer}
                          ELSE where0
                where2 == {b \in boilerSpecifications : b.isActive = isActive}
                count == Cardinality(boilerSpecifications)
                results == LimitOffset(LatestFirst({b.id : b \in where2}),
                                       query.pageSize, offset)
            IN  /\ listing' = [ page |-> query.page, pageSize |-> query.pageSize,
                                total |-> count,
                                totalPages |-> Ceil(count, query.pageSize),
                                data |-> results ]
                /\ response' = Reply("searchBoilers", 200, NoVal, {})

----------------------------------------------------------------------------
(* The list model: customers and boiler specifications are added, boiler   *)
(* specifications are deactivated, and both tables are listed page by page. *)

Pages == 0..MaxPage
PageSizes == 1..MaxPageSize
PropertyTypes == {"flat", "semi"}

CustomerBodies == { [propertyType |-> t] : t \in PropertyTypes }

CustomerQueries ==
    { [page |-> p, pageSize |-> s, propertyType |-> t] :
        p \in Pages, s \in PageSizes, t \in PropertyTypes \cup {NoStatus} }

BoilerQueries ==
    { [page |-> p, pageSize |-> s, manufacturer |-> m, isActive |-> a] :
        p \in Pages, s \in PageSizes, m \in {NoStatus, "Acme"},
        a \in {NoStatus, "false"} }

NextLists ==
    \/ /\ nextCustomerId <= MaxCustomers
       /\ \E user \in Users, data \in CustomerBodies : CreateCustomer(user, data)
    \/ \E user \in Users, query \in CustomerQueries : ListCustomers(user, query)
    \/ /\ nextBoilerId <= MaxBoilers
       /\ \E user \in Users, data \in CreateBoilerBodies : CreateBoiler(user, data)
    \/ \E user \in Users, id \in BoilerIds : DeactivateBoiler(user, id)
    \/ \E user \in Users, query \in BoilerQueries : SearchBoilers(user, query)

SpecLists == InitTables /\ [][NextLists]_vars

----------------------------------------------------------------------------
(* Pagination *)

\* The customers of the caller's account that a query asks for.
MatchingCustomers(user, query) ==
    { c \in customers :
        /\ c.accountId = user.accountId
        /\ query.propertyType # NoStatus => c.propertyType = query.propertyType }

\* The boiler specifications a query asks for; isActive is true unless the
\* request says false.
MatchingBoilers(query) ==
    { b \in boilerSpecifications :
        /\ query.manufacturer # NoStatus => b.manufacturer = query.manufacturer
        /\ b.isActive = (query.isActive # "false") }

PageOf(matching) ==
    /\ listing'.total = matching
    /\ listing'.totalPages = Ceil(listing'.total, listing'.pageSize)
    /\ Len(listing'.data) <= listing'.pageSize
    /\ response'.status = 200
    /\ listing'.page > listing'.totalPages => listing'.data = <<>>

\* C14: the answer to a list request with page >= 1 and pageSize in 1..100
\* has total = the number of records that match the filters in the
\* caller's scope, totalPages = ceil(total / pageSize), at most pageSize
\* records, and for a page past totalPages an empty list and status 200.
C14_PagesCountTheMatches ==
    [][ \A user \in Users :
          /\ \A query \in CustomerQueries :
               (paginationSchema(query) /\ ListCustomers(user, query)) =>
                   PageOf(Cardinality(MatchingCustomers(user, query)))
          /\ \A query \in BoilerQueries :
               (paginationSchema(query) /\ SearchBoilers(user, query)) =>
                   PageOf(Cardinality(MatchingBoilers(query))) ]_vars

\* The customers half of C14, which the handler keeps.
CustomerPagesCountTheMatches ==
    [][ \A user \in Users, query \in CustomerQueries :
          (paginationSchema(query) /\ ListCustomers(user, query)) =>
              PageOf(Cardinality(MatchingCustomers(user, query))) ]_vars

----------------------------------------------------------------------------
(* Sharing a visit.  visit_sessions.share_id is a nullable column with a   *)
(* unique constraint; NoStatus stands for NULL.                            *)

ShareIds == {"share-1", "share-2"}
ShareParams == ShareIds \cup {"unknown"}

\* POST /api/visits/:id/share, the route the web client calls
\* (generateVisitShare): a completed visit of the caller's account gets a
\* share id no other visit has; any other request is refused and changes
\* nothing.
GenerateVisitShare(user, id, shareId) ==
    /\ UNCHANGED <<surveyModules, nextVisitId, nextModuleId, notVisitVars>>
    /\ IF /\ OwnVisit(user, id)
          /\ \E v \in visitSessions : v.id = id /\ v.status = "completed"
          /\ \A v \in visitSessions : v.shareId # shareId
       THEN LET existing == CHOOSE v \in visitSessions : v.id = id
                visit == [existing EXCEPT !.shareId = shareId]
            IN  /\ visitSessions' = (visitSessions \ {existing}) \cup {visit}
                /\ response' = Reply("generateVisitShare", 200, id, {visit.accountId})
       ELSE /\ response' \in {Reply("generateVisitShare", s, id, {}) : s \in {400, 404, 409}}
            /\ UNCHANGED visitSessions

\* GET /api/public/view/:shareId, registered with no middleware
PublicView(shareId) ==
    /\ UNCHANGED <<quoteVars, refVars, visitVars, appointmentVars, authVars, boilerVars,
                   laterVars, nextCustomerId>>
    /\ IF \E v \in visitSessions : v.shareId = shareId
       THEN LET visit == CHOOSE v \in visitSessions : v.shareId = shareId
            IN  /\ listing' = [ visit |-> visit.id,
                                customer |-> {c.id : c \in {k \in customers :
                                                             k.id = visit.customerId}},
                                modules |-> {m.id : m \in {k \in surveyModules :
                                                             k.visitSessionId = visit.id}} ]
                /\ response' = Reply("publicView", 200, visit.id, {visit.accountId})
       ELSE /\ response' \in Fail("publicView", AppError(Text, 404), NoVal)
            /\ UNCHANGED listing

SharedVisitBodies == { [status |-> "completed"] }

NextShare ==
    \/ /\ nextVisitId <= MaxVisits
       /\ \E user \in Users, data \in VisitBodies : CreateVisit(user, data)
    \/ \E user \in Users, id \in VisitIds, data \in SharedVisitBodies :
         UpdateVisit(user, id, data)
    \/ /\ nextModuleId <= MaxModules
       /\ \E user \in Users, id \in VisitIds : CreateModule(user, id)
    \/ \E user \in Users, id \in VisitIds, shareId \in ShareIds :
         GenerateVisitShare(user, id, shareId)
    \/ \E user \in Users, id \in VisitIds : DeleteVisit(user, id)
    \/ \E shareId \in ShareParams : PublicView(shareId)

SpecShare == InitTables /\ [][NextShare]_vars

----------------------------------------------------------------------------
(* The public view *)

\* The body holds the visit with that share id, its customer and its
\* modules, and no other.
ShowsItsVisitOnly(shareId) ==
    \E v \in visitSessions :
        /\ v.shareId = shareId
        /\ listing'.visit = v.id
        /\ listing'.customer = {v.customerId}
        /\ listing'.modules = {m.id : m \in {k \in surveyModules : k.visitSessionId = v.id}}

\* C15: a share id is generated only for a completed visit of the caller's
\* account; the public view of a share id answers 200 with the data of the
\* visit that has it and of no other visit, and 404 for a share id no
\* visit has; a visit without a share id is never shown.
C15_PublicViewByShareId ==
    [][ /\ \A user \in Users, id \in VisitIds, shareId \in ShareIds :
             (GenerateVisitShare(user, id, shareId) /\ visitSessions' # visitSessions) =>
                 /\ OwnVisit(user, id)
                 /\ \E v \in visitSessions : v.id = id /\ v.status = "completed"
        /\ \A shareId \in ShareParams :
             PublicView(shareId) =>
                 IF \E v \in visitSessions : v.shareId = shareId
                 THEN response'.status = 200 /\ ShowsItsVisitOnly(shareId)
                 ELSE response'.status = 404 ]_vars

\* The part of C15 the handler keeps: whatever is shown is the visit with
\* the share id that was asked for.
PublicViewShowsSharedVisitOnly ==
    [][ \A shareId \in ShareParams :
          (PublicView(shareId) /\ response'.status = 200 /\ listing' # listing) =>
              ShowsItsVisitOnly(shareId) ]_vars

----------------------------------------------------------------------------
(* Exceptions that reach the error handler *)

Generic == "An unexpected error occurred"
NoStack == "no stack"

\* formatErrorResponse(error): the body of the answer.  An AppError and an
\* HTTPException give their own message; any other exception gives the
\* generic text when NODE_ENV is 'production', and its name, its message
\* (the generic text if it has none) and its stack otherwise.
formatErrorResponse(error) ==
    IF error.kind = "AppError"
    THEN [error |-> error.name, message |-> error.message, stack |-> NoStack]
    ELSE IF error.kind = "HTTPException"
    THEN [error |-> "HTTPException", message |-> error.message, stack |-> NoStack]
    ELSE IF nodeEnv = "production"
    THEN [error |-> "InternalServerError", message |-> Generic, stack |-> NoStack]
    ELSE [error |-> IF error.name = "" THEN "Error" ELSE error.name,
          message |-> IF error.message = "" THEN Generic ELSE error.message,
          stack |-> error.stack]

\* app.onError(errorHandler) for an exception thrown by any handler; the
\* statusCode of an HTTPException is its status.
Throw(err) ==
    /\ response' \in Fail("error", err, NoVal)
    /\ listing' = formatErrorResponse(err)
    /\ UNCHANGED <<quoteVars, refVars, visitVars, appointmentVars, authVars, boilerVars,
                   laterVars, nextCustomerId>>

----------------------------------------------------------------------------
(* The error model: the server runs under any NODE_ENV and its handlers    *)
(* throw domain errors, HTTP exceptions and other exceptions.              *)

NodeEnvs == {"production", "development", "test", "staging", "unset"}

Messages == {"", "connect ECONNREFUSED 10.0.0.5:5432", "duplicate key value",
             "password authentication failed for user phm"}

DomainErrors ==
    { [kind |-> "AppError", name |-> n, statusCode |-> s, message |-> m, stack |-> "at handler"] :
        n \in {"NotFoundError"}, s \in {400, 404, 409}, m \in {"Customer not found"} }
      \cup
    { [kind |-> "HTTPException", name |-> "Error", statusCode |-> s, message |-> m,
       stack |-> "at handler"] : s \in {400, 413}, m \in {"Payload Too Large"} }

OtherErrors ==
    { [kind |-> "Error", name |-> n, statusCode |-> NoVal, message |-> m, stack |-> st] :
        n \in {"", "TypeError", "PostgresError"}, m \in Messages,
        st \in {"at db.query (pool.js:12)", "at handler (quotes.js:120)"} }

InitErrors == InitRows /\ nodeEnv \in NodeEnvs

NextErrors ==
    \/ \E err \in DomainErrors : Throw(err)
    \/ \E err \in OtherErrors : Throw(err)

SpecErrors == InitErrors /\ [][NextErrors]_vars

----------------------------------------------------------------------------
(* Internal errors *)

\* C16: an exception that is no AppError and no HTTPException is answered
\* 500, and unless NODE_ENV is development the body carries the generic
\* message and neither the exception's message nor its stack.
C16_InternalErrorsSanitized ==
    [][ \A err \in OtherErrors :
          Throw(err) =>
              /\ response'.status = 500
              /\ nodeEnv # "development" =>
                    /\ listing'.message = Generic
                    /\ listing'.stack = NoStack ]_vars

\* The part of C16 the handler keeps: status 500 always, and the generic
\* body when NODE_ENV is production.
InternalErrorsSanitizedInProduction ==
    [][ \A err \in OtherErrors :
          Throw(err) =>
              /\ response'.status = 500
              /\ nodeEnv = "production" =>
                    /\ listing'.message = Generic
                    /\ listing'.stack = NoStack ]_vars

----------------------------------------------------------------------------
(* Registration *)

\* POST /api/auth/register: the email is looked up, then the account and
\* its first user, an admin, are inserted in one transaction and the two
\* tokens are signed.
Register(data) ==
    /\ UNCHANGED <<quoteVars, refVars, visitVars, appointmentVars, notSessionVars, clock>>
    /\ IF \E u \in users : u.email = data.email
       THEN /\ Denied("register", ConflictError("User with this email already exists"))
            /\ UNCHANGED <<users, nextUserId, nextAccountId>>
       ELSE LET user == [ id |-> nextUserId, accountId |-> nextAccountId,
                          email |-> data.email, role |-> "admin", isActive |-> TRUE,
                          password |-> data.password ]
                accessToken == generateAccessToken(user)
                refreshToken == generateRefreshToken(user)
            IN  /\ users' = users \cup {user}
                /\ nextUserId' = nextUserId + 1
                /\ nextAccountId' = nextAccountId + 1
                /\ tokens' = tokens \cup {accessToken, refreshToken}
                /\ response' = Reply("register", 201, user.id, {user.accountId})
                /\ delivered' = Delivery("Registration successful", accessToken, NoToken,
                                         [accessToken |-> accessToken,
                                          refreshToken |-> refreshToken])

----------------------------------------------------------------------------
(* The email model: people register and admins add team members, with new  *)
(* emails and with emails that are taken.                                  *)

Emails == {"a@one", "b@two", "c@one", "d@new"}

RegisterBodies ==
    { [email |-> e, password |-> "Secret-new-12"] : e \in Emails }

TeamBodies ==
    { [email |-> e, password |-> "Secret-new-12", role |-> r] :
        e \in Emails, r \in {NoStatus, "admin"} }

NextEmails ==
    \/ /\ nextUserId <= MaxUsers
       /\ \E data \in RegisterBodies : Register(data)
    \/ /\ nextUserId <= MaxUsers
       /\ \E user \in Callers, data \in TeamBodies : CreateUser(user, data)
    \/ \E user \in Callers, id \in UserIds : DeactivateUser(user, id)

SpecEmails == InitTables /\ [][NextEmails]_vars

----------------------------------------------------------------------------
(* Duplicate emails *)

EmailTaken(email) == \E u \in users : u.email = email

\* C17: a register request and a create user request with an email that a
\* user already has are answered 409 and create no account and no user.
C17_DuplicateEmailConflicts ==
    [][ /\ \A data \in RegisterBodies :
             (EmailTaken(data.email) /\ Register(data)) =>
                 /\ response'.status = 409
                 /\ UNCHANGED <<users, nextUserId, nextAccountId>>
        /\ \A user \in Callers, data \in TeamBodies :
             (EmailTaken(data.email) /\ user.role = "admin" /\ CreateUser(user, data)) =>
                 /\ response'.status = 409
                 /\ UNCHANGED <<users, nextUserId, nextAccountId>> ]_vars

\* The part of C17 the handlers keep: register answers 409, and neither
\* route stores a second user with an email that is taken.
EmailsStayUnique ==
    /\ [](\A u, v \in users : u.email = v.email => u = v)
    /\ [][ \A data \in RegisterBodies :
             (EmailTaken(data.email) /\ Register(data)) =>
                 /\ response'.status = 409
                 /\ UNCHANGED <<users, nextUserId, nextAccountId>> ]_vars

----------------------------------------------------------------------------
(* The cascade model: quotes with lines are created and deleted, and       *)
(* appointments are booked for a quote and removed.                        *)

CascadeBodies ==
    { [customerId |-> c, leadId |-> NoVal, taxRate |-> NoVal, lines |-> ls] :
        c \in CustomerIds, ls \in {l \in LineLists : Len(l) >= 1} }

QuoteAppointmentBodies ==
    { [customerId |-> c, quoteId |-> q, assignedTo |-> NoVal,
       scheduledStart |-> 1, scheduledEnd |-> 2] :
        c \in CustomerIds, q \in StampedIds \cup {NoVal} }

NextCascade ==
    \/ /\ nextQuoteId <= MaxStamped
       /\ \E user \in Users, data \in CascadeBodies : CreateQuote(user, data)
    \/ \E user \in Users, id \in StampedIds : DeleteQuote(user, id)
    \/ /\ nextAppointmentId <= MaxAppointments
       /\ \E user \in Users, data \in QuoteAppointmentBodies : CreateAppointment(user, data)
    \/ \E user \in Users, id \in AppointmentIds : DeleteAppointment(user, id)

SpecCascade == InitTables /\ [][NextCascade]_vars

----------------------------------------------------------------------------
(* Lines do not outlive their quote *)

LinesBelongToQuotes == \A l \in quoteLines : \E q \in quotes : q.id = l.quoteId

\* C18: deleting a quote of the caller's account answers 200 and removes
\* the quote and all its lines, and every stored line belongs to a stored
\* quote.
C18_DeleteRemovesQuoteAndLines ==
    /\ []LinesBelongToQuotes
    /\ [][ \A user \in Users, id \in StampedIds :
             (OwnQuote(user, id) /\ DeleteQuote(user, id)) =>
                 /\ response'.status = 200
                 /\ \A q \in quotes' : q.id # id
                 /\ \A l \in quoteLines' : l.quoteId # id ]_vars

\* The part of C18 the tables keep: no line without its quote.
LinesNeverOrphaned == []LinesBelongToQuotes

----------------------------------------------------------------------------
(* ConfirmButton with destructive = true.  Each handler runs to its end    *)
(* before the next event; a timeout fires at or after the time it is due.  *)

HoldDuration == 2
MaxPresses == 3
MaxButtonTime == 4
MaxCalls == 2

notButtonVars == <<quoteVars, refVars, visitVars, appointmentVars, authVars, boilerVars,
                   pageVars, nodeEnv, raceVars, streamVars, sessionVars, response>>

\* settings.confirmDestructiveActions && destructive
needsConfirmation == confirmDestructiveActions

\* onMouseDown and onTouchStart: handleMouseDown.  The new timeout's id
\* replaces the one in holdTimerRef; a timeout set by an earlier press is
\* not cleared.
handleMouseDown ==
    /\ heldSince' = IF heldSince = NoVal THEN time ELSE heldSince
    /\ IF isExecuting \/ ~needsConfirmation
       THEN UNCHANGED <<isHolding, holdTimerRef, timers, nextTimerId>>
       ELSE /\ isHolding' = TRUE
            /\ timers' = timers \cup {[id |-> nextTimerId, due |-> time + HoldDuration]}
            /\ holdTimerRef' = nextTimerId
            /\ nextTimerId' = nextTimerId + 1
    /\ UNCHANGED <<confirmDestructiveActions, isExecuting, time, onClickCalls, notButtonVars>>

\* onMouseUp, onMouseLeave and onTouchEnd: handleMouseUp clears the timeout
\* whose id holdTimerRef holds.
handleMouseUp ==
    /\ heldSince' = NoVal
    /\ timers' = {t \in timers : t.id # holdTimerRef}
    /\ holdTimerRef' = NoVal
    /\ isHolding' = FALSE
    /\ UNCHANGED <<confirmDestructiveActions, isExecuting, nextTimerId, time, onClickCalls,
                   notButtonVars>>

\* The callback of setTimeout(..., holdDuration): onClick is invoked.
HoldTimerFires(t) ==
    /\ t \in timers
    /\ time >= t.due
    /\ timers' = timers \ {t}
    /\ isHolding' = FALSE
    /\ isExecuting' = TRUE
    /\ onClickCalls' = onClickCalls + 1
    /\ UNCHANGED <<confirmDestructiveActions, holdTimerRef, nextTimerId, time, heldSince,
                   notButtonVars>>

\* await onClick() returns: the finally block.
OnClickReturns ==
    /\ isExecuting
    /\ isExecuting' = FALSE
    /\ UNCHANGED <<confirmDestructiveActions, isHolding, holdTimerRef, timers, nextTimerId,
                   time, heldSince, onClickCalls, notButtonVars>>

\* onClick of the button element: handleClick
handleClick ==
    /\ IF needsConfirmation \/ isExecuting
       THEN UNCHANGED <<isExecuting, onClickCalls>>
       ELSE /\ isExecuting' = TRUE
            /\ onClickCalls' = onClickCalls + 1
    /\ UNCHANGED <<confirmDestructiveActions, isHolding, holdTimerRef, timers, nextTimerId,
                   time, heldSince, notButtonVars>>

\* The Confirm Destructive Actions switch of the profile page.
ToggleConfirm ==
    /\ confirmDestructiveActions' = ~confirmDestructiveActions
    /\ UNCHANGED <<isHolding, isExecuting, holdTimerRef, timers, nextTimerId, time,
                   heldSince, onClickCalls, notButtonVars>>

TimePasses ==
    /\ time < MaxButtonTime
    /\ time' = time + 1
    /\ UNCHANGED <<confirmDestructiveActions, isHolding, isExecuting, holdTimerRef, timers,
                   nextTimerId, heldSince, onClickCalls, notButtonVars>>

NextButton ==
    \/ nextTimerId <= MaxPresses /\ handleMouseDown
    \/ handleMouseUp
    \/ \E t \in timers : HoldTimerFires(t)
    \/ OnClickReturns
    \/ onClickCalls < MaxCalls /\ handleClick
    \/ ToggleConfirm
    \/ TimePasses

SpecButton == InitTables /\ [][NextButton]_vars

----------------------------------------------------------------------------
(* Hold to confirm *)

\* C19: while confirmDestructiveActions is on, onClick is invoked only when
\* a press has been held for at least holdDuration with no release, leave
\* or touch end since it began, whatever the sequence of presses, releases,
\* clicks and timer callbacks.
C19_OnClickOnlyAfterHold ==
    [][ (onClickCalls' > onClickCalls /\ needsConfirmation) =>
            /\ heldSince # NoVal
            /\ time - heldSince >= HoldDuration ]_vars

\* What the button keeps: with confirmation on a click alone invokes
\* nothing, and onClick is never invoked sooner than holdDuration after a
\* press.
ClickAloneInvokesNothing ==
    [][ (needsConfirmation /\ handleClick) => onClickCalls' = onClickCalls ]_vars

----------------------------------------------------------------------------
(* Updating a quote with lines *)

\* The stored lines of quote id are the lines of the list, in its order.
StoredAs(rows, id, lines) ==
    /\ Cardinality(rows) = Len(lines)
    /\ \A i \in 1..Len(lines) :
          \E l \in rows :
              /\ l.quoteId = id
              /\ l.sortOrder = i - 1
              /\ l.description = lines[i].description
              /\ l.quantity = lines[i].quantity
              /\ l.unitPrice = Numeric2(lines[i].unitPrice)
              /\ l.discount = Numeric2(lines[i].discount)
              /\ l.lineTotal = Numeric2((lines[i].quantity * lines[i].unitPrice)
                                          - lines[i].discount)

\* C20: after a successful PUT /api/quotes/:id with a lines list L the
\* stored lines of the quote are the lines of L in order (sortOrder = the
\* position, lineTotal = quantity * unitPrice - discount) and no other, and
\* subtotal, taxAmount and total are computed from L with the request's
\* taxRate when it gives one and with the quote's taxRate otherwise.
C20_UpdateReplacesLinesAndTotals ==
    [][ \A user \in Users, id \in QuoteIds, data \in TotalsUpdateBodies :
          (data.hasLines /\ UpdateQuote(user, id, data) /\ response'.status = 200) =>
             LET q == QuoteOfId(quotes', id)
                 R == IF data.taxRate = NoVal THEN QuoteOfId(quotes, id).taxRate
                      ELSE data.taxRate
             IN  /\ StoredAs({l \in quoteLines' : l.quoteId = id}, id, data.lines)
                 /\ q.subtotal = Numeric2(SumLines(data.lines))
                 /\ q.taxAmount = Numeric2((q.subtotal * R) \div 100)
                 /\ q.total = q.subtotal + q.taxAmount ]_vars

\* The part of C20 the handler keeps: the lines are replaced by those of
\* the request, in order.
UpdateReplacesLines ==
    [][ \A user \in Users, id \in QuoteIds, data \in TotalsUpdateBodies :
          (data.hasLines /\ UpdateQuote(user, id, data) /\ response'.status = 200) =>
              StoredAs({l \in quoteLines' : l.quoteId = id}, id, data.lines) ]_vars


----------------------------------------------------------------------------
(* Quote requests that overlap.  A request reads outside its transaction, *)
(* then db.transaction runs its statements (READ COMMITTED, the default): *)
(* other requests and readers see its writes only once it commits, and a   *)
(* failing statement rolls all of them back.  Rows of quote_lines are      *)
(* identified by their values.                                             *)

MaxTxs == 2         \* quote requests in progress at once
MaxRaced == 2       \* inserts into quotes attempted in the races model

notRaceVars == <<refVars, visitVars, appointmentVars, authVars, boilerVars, pageVars,
                 nodeEnv, buttonVars, streamVars, sessionVars>>

FreeTx == CHOOSE n \in 1..(Cardinality(txs) + 1) : \A t \in txs : t.request # n

\* What a request holds once its reads are done: the row it is about to
\* insert (create, duplicate) or the row it read (update), the body, the
\* lines it read (duplicate), and the rows its DELETE found.
Tx(op, user, id, row, data, copies) ==
    [ request |-> FreeTx, op |-> op, user |-> user, id |-> id, row |-> row,
      data |-> data, copies |-> copies, phase |-> "begun", targets |-> {} ]

\* POST /api/quotes up to db.transaction: customer lookup, totals, number.
BeginCreateQuote(user, data) ==
    LET accountId == user.accountId
        taxRate == ParsedTaxRate(data)
        totals == calculateQuoteTotals(data.lines, OrElse(taxRate, DefaultTaxRate))
    IN
    /\ UNCHANGED <<quoteVars, notRaceVars>>
    /\ IF ~createQuoteSchema(data)
       THEN /\ response' \in Fail("create", ValidationError("Validation failed"), NoVal)
            /\ UNCHANGED txs
       ELSE IF ~\E c \in customers : c.id = data.customerId /\ c.accountId = accountId
       THEN /\ response' \in Fail("create", NotFoundError("Customer not found"), NoVal)
            /\ UNCHANGED txs
       ELSE \E quoteNumber \in generateQuoteNumber(accountId) :
            LET row == [ id          |-> NoVal,
                         accountId   |-> accountId,
                         customerId  |-> data.customerId,
                         leadId      |-> data.leadId,
                         quoteNumber |-> quoteNumber,
                         status      |-> "draft",
                         taxRate     |-> OrElse(taxRate, DefaultTaxRate),
                         subtotal    |-> Numeric2(totals.subtotal),
                         taxAmount   |-> Numeric2(totals.taxAmount),
                         total       |-> Numeric2(totals.total),
                         sentAt      |-> NoVal,
                         acceptedAt  |-> NoVal,
                         rejectedAt  |-> NoVal,
                         createdBy   |-> user.userId,
                         createdAt   |-> NoVal ]
                body == [taxRate |-> data.taxRate, status |-> NoStatus,
                         hasLines |-> TRUE, lines |-> data.lines]
            IN  /\ txs' = txs \cup {Tx("create", user, NoVal, row, body, {})}
                /\ UNCHANGED response

\* POST /api/quotes/:id/duplicate up to db.transaction: the original with
\* its lines, then the number.
BeginDuplicateQuote(user, id) ==
    LET accountId == user.accountId IN
    /\ UNCHANGED <<quoteVars, notRaceVars>>
    /\ IF ~\E q \in quotes : q.id = id /\ q.accountId = accountId
       THEN /\ response' \in Fail("duplicate", NotFoundError("Quote not found"), id)
            /\ UNCHANGED txs
       ELSE \E quoteNumber \in generateQuoteNumber(accountId) :
            LET original == CHOOSE q \in quotes : q.id = id
                row == [original EXCEPT !.id = NoVal, !.quoteNumber = quoteNumber,
                                        !.status = "draft", !.sentAt = NoVal,
                                        !.acceptedAt = NoVal, !.rejectedAt = NoVal,
                                        !.createdBy = user.userId, !.createdAt = NoVal]
                body == [taxRate |-> NoVal, status |-> NoStatus,
                         hasLines |-> FALSE, lines |-> <<>>]
            IN  /\ txs' = txs \cup {Tx("duplicate", user, id, row, body, LinesOf(id))}
                /\ UNCHANGED response

\* The transaction of create and of duplicate: insert the quote, insert
\* the lines, commit.  An insert that meets an uncommitted row with the same
\* quote_number waits for that transaction, so the unique constraint sees
\* what is committed when this transaction ends.
CommitInsertQuote(t) ==
    LET quote == [t.row EXCEPT !.id = nextQuoteId, !.createdAt = now]
        rows == IF t.op = "create" THEN NewLineRows(quote.id, t.data.lines)
                ELSE {[l EXCEPT !.quoteId = quote.id] : l \in t.copies}
    IN
    /\ t.op \in {"create", "duplicate"}
    /\ txs' = txs \ {t}
    /\ nextQuoteId' = nextQuoteId + 1
    /\ UNCHANGED <<year, notRaceVars>>
    /\ IF QuoteNumberFree(quote.quoteNumber) /\ LeadFkHolds(quote.leadId)
          /\ LineFksHold(t.data.lines)
       THEN /\ quotes' = quotes \cup {quote}
            /\ quoteLines' = quoteLines \cup rows
            /\ now' = now + 1
            /\ issued' = issued \cup {<<quote.accountId, quote.quoteNumber>>}
            /\ response' = Reply(t.op, 201, quote.id, QuoteBodyOwners(quote, FALSE)')
       ELSE \* the transaction rolls back
            /\ response' \in Fail(t.op, DbError, t.id)
            /\ UNCHANGED <<quotes, quoteLines, now, issued>>

\* PUT /api/quotes/:id up to db.transaction: the lookup of `existing`.
BeginUpdateQuote(user, id, data) ==
    /\ UNCHANGED <<quoteVars, notRaceVars>>
    /\ IF ~updateQuoteSchema(data)
       THEN /\ response' \in Fail("update", ValidationError("Validation failed"), id)
            /\ UNCHANGED txs
       ELSE IF ~\E q \in quotes : q.id = id /\ q.accountId = user.accountId
       THEN /\ response' \in Fail("update", NotFoundError("Quote not found"), id)
            /\ UNCHANGED txs
       ELSE LET existing == CHOOSE q \in quotes : q.id = id
            IN  /\ txs' = txs \cup {Tx("update", user, id, existing, data, {})}
                /\ UNCHANGED response

\* The rows of quote_lines other transactions have deleted and not yet
\* committed.
LockedBy(others) == UNION {o.targets : o \in {x \in others : x.phase = "deleted"}}

\* tx.delete(quoteLines).where(eq(quoteLines.quoteId, id)): the statement
\* finds the rows committed when it starts; if another transaction has
\* deleted one of them it waits for that transaction.
DeleteLines(t) ==
    LET found == LinesOf(t.id)
        phase == IF found \cap LockedBy(txs \ {t}) = {} THEN "deleted" ELSE "waiting"
    IN
    /\ t.op = "update" /\ t.phase = "begun" /\ t.data.hasLines
    /\ txs' = (txs \ {t}) \cup {[t EXCEPT !.phase = phase, !.targets = found]}
    /\ UNCHANGED <<quoteVars, notRaceVars, response>>

\* The waiting DELETE goes on when the other transaction has ended: a row
\* that transaction deleted is skipped, and the rows it inserted are not
\* among those the statement found.
ResumeDeleteLines(t) ==
    /\ t.op = "update" /\ t.phase = "waiting"
    /\ t.targets \cap LockedBy(txs \ {t}) = {}
    /\ txs' = (txs \ {t}) \cup {[t EXCEPT !.phase = "deleted",
                                         !.targets = t.targets \cap quoteLines]}
    /\ UNCHANGED <<quoteVars, notRaceVars, response>>

\* The rest of the update's transaction: insert the new lines, update the
\* quote row with .set(updateData), commit.
CommitUpdateQuote(t) ==
    LET data == t.data
        existing == t.row
        totals == calculateQuoteTotals(data.lines, OrElse(data.taxRate, existing.taxRate))
        Set(q) == LET base == [q EXCEPT
                                 !.taxRate = IF data.taxRate = NoVal THEN @ ELSE data.taxRate,
                                 !.status = IF data.status = NoStatus THEN @ ELSE data.status]
                  IN  IF data.hasLines
                      THEN [base EXCEPT !.subtotal = Numeric2(totals.subtotal),
                                        !.taxAmount = Numeric2(totals.taxAmount),
                                        !.total = Numeric2(totals.total)]
                      ELSE base
    IN
    /\ t.op = "update"
    /\ t.phase = "deleted" \/ (t.phase = "begun" /\ ~data.hasLines)
    /\ txs' = txs \ {t}
    /\ UNCHANGED <<nextQuoteId, now, year, issued, notRaceVars>>
    /\ IF data.hasLines /\ (~LineFksHold(data.lines) \/ ~\E q \in quotes : q.id = t.id)
       THEN \* the transaction rolls back
            /\ response' \in Fail("update", DbError, t.id)
            /\ UNCHANGED <<quotes, quoteLines>>
       ELSE /\ quotes' = {IF q.id = t.id THEN Set(q) ELSE q : q \in quotes}
            /\ quoteLines' = IF data.hasLines
                             THEN (quoteLines \ t.targets) \cup NewLineRows(t.id, data.lines)
                             ELSE quoteLines
            /\ response' = Reply("update", 200, t.id, {t.user.accountId})

\* GET /api/quotes/:id while other requests are in progress: one query,
\* which sees what is committed.
ReadQuote(user, id) ==
    /\ GetQuote(user, id)
    /\ UNCHANGED txs

(* The races model: the user of account 1 creates, duplicates and updates   *)
(* quotes with the default tax rate, up to MaxTxs requests at a time, and  *)
(* reads them in between.  The line lists differ in every line.            *)

RacedIds == 1..MaxRaced

RacedCreateBodies ==
    { [customerId |-> 1, leadId |-> NoVal, taxRate |-> NoVal,
       lines |-> << Line("Boiler", 1, 10000, 0) >>] }

\* two lines; one line; a line whose product does not exist
RacedLineLists ==
    { << Line("Filter", 3, 500, 0), Line("Valve", 1, 500, 0) >>,
      << Line("Pump", 1, 2000, 0) >>,
      << Line("Flue", 1, 3000, 0), [Line("Ghost", 1, 100, 0) EXCEPT !.productId = 9] >> }

RacedUpdateBodies ==
    { [taxRate |-> NoVal, status |-> NoStatus, hasLines |-> TRUE, lines |-> ls] :
        ls \in RacedLineLists }

Inserting == {t \in txs : t.op \in {"create", "duplicate"}}

RacingUsers == {u \in Users : u.accountId = 1}

NextRaces ==
    \/ /\ Cardinality(txs) < MaxTxs
       /\ nextQuoteId + Cardinality(Inserting) <= MaxRaced
       /\ \E user \in RacingUsers, data \in RacedCreateBodies : BeginCreateQuote(user, data)
    \/ /\ Cardinality(txs) < MaxTxs
       /\ nextQuoteId + Cardinality(Inserting) <= MaxRaced
       /\ \E user \in RacingUsers, id \in RacedIds : BeginDuplicateQuote(user, id)
    \/ \E t \in txs : CommitInsertQuote(t)
    \/ /\ Cardinality(txs) < MaxTxs
       /\ \E user \in RacingUsers, id \in RacedIds, data \in RacedUpdateBodies :
            BeginUpdateQuote(user, id, data)
    \/ \E t \in txs : DeleteLines(t)
    \/ \E t \in txs : ResumeDeleteLines(t)
    \/ \E t \in txs : CommitUpdateQuote(t)
    \/ \E user \in RacingUsers, id \in RacedIds : ReadQuote(user, id)

SpecRaces == InitTables /\ [][NextRaces]_vars


(* The number races model: both accounts create and duplicate, with the   *)
(* bodies of the numbering model.                                          *)
NextNumberRaces ==
    \/ /\ Cardinality(txs) < MaxTxs
       /\ nextQuoteId + Cardinality(Inserting) <= MaxRaced
       /\ \E user \in Users, data \in NumberedBodies : BeginCreateQuote(user, data)
    \/ /\ Cardinality(txs) < MaxTxs
       /\ nextQuoteId + Cardinality(Inserting) <= MaxRaced
       /\ \E user \in Users, id \in RacedIds : BeginDuplicateQuote(user, id)
    \/ \E t \in txs : CommitInsertQuote(t)
    \/ \E user \in Users, id \in RacedIds : ReadQuote(user, id)

SpecNumberRaces == InitTables /\ [][NextNumberRaces]_vars

----------------------------------------------------------------------------
(* C21 *)

\* What a reader of quote q finds is the whole of one request: the rows of
\* one line list and the totals of that list.
QuoteWhole(q) ==
    \E ls \in RacedLineLists \cup {data.lines : data \in RacedCreateBodies} :
       LET totals == calculateQuoteTotals(ls, q.taxRate) IN
       /\ LinesOf(q.id) = NewLineRows(q.id, ls)
       /\ q.subtotal = Numeric2(totals.subtotal)
       /\ q.taxAmount = Numeric2(totals.taxAmount)
       /\ q.total = Numeric2(totals.total)

\* A transaction either leaves quotes and quote_lines as they were, or it
\* is answered 200 or 201 and all of its new lines are stored.
AppliedWhollyOrNotAtAll ==
    \A t \in txs :
       /\ (CommitInsertQuote(t) \/ CommitUpdateQuote(t)) /\ response'.status \notin {200, 201}
             => quotes' = quotes /\ quoteLines' = quoteLines
       /\ CommitInsertQuote(t) /\ response'.status = 201
             => \E q \in quotes' \ quotes : LinesOf(q.id)' # {}
       /\ CommitUpdateQuote(t) /\ response'.status = 200
             => NewLineRows(t.id, t.data.lines) \subseteq quoteLines'

\* C21: quote create, update with lines and duplicate are atomic.  Whatever
\* requests overlap, every stored quote a reader can find has the lines of
\* one request, all of them, with the totals of those lines, and a request
\* of which a statement failed leaves quotes and quote lines as they were.
C21_QuoteWritesAtomic ==
    /\ [](\A q \in quotes : QuoteWhole(q))
    /\ [][AppliedWhollyOrNotAtAll]_vars

\* The part that holds: no step stores a quote without lines or a part of
\* a request's lines, and a failed transaction stores nothing.
NoPartialQuoteWrite ==
    /\ [](\A q \in quotes : LinesOf(q.id) # {})
    /\ [][AppliedWhollyOrNotAtAll]_vars

----------------------------------------------------------------------------
(* C22 *)

\* The request whose transaction ends second had generated a number that
\* is stored by now.
LostNumberRace(t) == CommitInsertQuote(t) /\ ~QuoteNumberFree(t.row.quoteNumber)

NumbersUnique == \A q1, q2 \in quotes : q1.quoteNumber = q2.quoteNumber => q1 = q2

----------------------------------------------------------------------------
(* C26 *)

\* C26: two overlapping updates of one quote that both carry lines leave
\* what running them one after the other leaves: when an update with lines
\* is answered 200, the stored lines of the quote are exactly the lines of
\* that request and the stored totals are the totals of those lines.
C26_OverlappingUpdatesSerialise ==
    [][\A t \in txs :
         CommitUpdateQuote(t) /\ t.data.hasLines /\ response'.status = 200 =>
            LET totals == calculateQuoteTotals(t.data.lines, t.row.taxRate) IN
            /\ LinesOf(t.id)' = NewLineRows(t.id, t.data.lines)
            /\ \E q \in quotes' :
                  /\ q.id = t.id
                  /\ q.subtotal = Numeric2(totals.subtotal)
                  /\ q.taxAmount = Numeric2(totals.taxAmount)
                  /\ q.total = Numeric2(totals.total)]_vars

\* The same for an update that no other update of the quote overlapped
\* from its DELETE to its commit.
UpdateAloneReplacesLines ==
    [][\A t \in txs :
         CommitUpdateQuote(t) /\ t.data.hasLines /\ response'.status = 200
           /\ t.targets = LinesOf(t.id) =>
            LinesOf(t.id)' = NewLineRows(t.id, t.data.lines)]_vars


----------------------------------------------------------------------------
(* C23 *)

\* Row `after` is row `before` with the status and the one timestamp set
\* and everything else as it was.
Stamped(before, after, status, field) ==
    /\ after.status = status
    /\ after[field] = now
    /\ \A f \in (DOMAIN before) \ {"status", field} : after[f] = before[f]

StampsQuote(user, id, status, field) ==
    \A q \in quotes :
       q.id = id /\ q.accountId = user.accountId =>
          /\ response'.status = 200
          /\ \E after \in quotes' :
                /\ Stamped(q, after, status, field)
                /\ quotes' = (quotes \ {q}) \cup {after}
          /\ quoteLines' = quoteLines

\* C23: no status transition is validated.  Send, accept and reject of a
\* quote of the caller's account succeed whatever the quote's status is,
\* set the status to sent, accepted or rejected, stamp sentAt, acceptedAt
\* or rejectedAt, and leave the number, the lines, the totals and the
\* other two timestamps as they were.
C23_EveryTransitionAllowed ==
    [][\A user \in Users, id \in StampedIds :
          /\ SendQuote(user, id) => StampsQuote(user, id, "sent", "sentAt")
          /\ AcceptQuote(user, id) => StampsQuote(user, id, "accepted", "acceptedAt")
          /\ RejectQuote(user, id) => StampsQuote(user, id, "rejected", "rejectedAt")]_vars

\* A quote that was accepted and rejected has been sent after that.
C23_SentAfterAcceptedAndRejected ==
    \E q \in quotes :
       /\ q.status = "sent"
       /\ q.acceptedAt # NoVal /\ q.rejectedAt # NoVal
       /\ q.sentAt > q.acceptedAt /\ q.sentAt > q.rejectedAt


----------------------------------------------------------------------------
(* The live transcription stream.  streamSSE(c, cb) runs cb and closes the *)
(* stream when the promise cb returns settles; the listeners of            *)
(* stream.onAbort run when the client cancels a stream that is open.  A    *)
(* write to a stream that is closed or cancelled is dropped.               *)

KeepAliveEvery == 3   \* 30000 ms
MaxStreamTime == 7    \* how long the stream model runs
MaxPings == 2         \* ping writes attempted

notStreamVars == <<quoteVars, refVars, visitVars, appointmentVars, authVars, boilerVars,
                   pageVars, nodeEnv, buttonVars, raceVars, sessionVars>>

\* stream.writeSSE(event)
writeSSE(s, event) ==
    IF s.state = "open" /\ s.connected
    THEN [s EXCEPT !.events = Append(@, event)]
    ELSE [s EXCEPT !.dropped = @ + 1]

\* GET /api/transcription/stream/:visitSessionId up to the first message.
OpenStream(user, visitSessionId) ==
    /\ stream.state = "none"
    /\ UNCHANGED <<keepAliveInterval, streamTime, notStreamVars>>
    /\ IF ~OwnVisit(user, visitSessionId)
       THEN /\ response' \in Fail("stream", VisitNotFound, visitSessionId)
            /\ UNCHANGED stream
       ELSE /\ stream' = writeSSE([stream EXCEPT !.state = "open", !.connected = TRUE,
                                                 !.pc = "connected"], "connected")
            /\ response' = Reply("stream", 200, visitSessionId, {user.accountId})

\* The sample transcription message.
WriteSample ==
    /\ stream.pc = "connected"
    /\ stream' = [writeSSE(stream, "transcription") EXCEPT !.pc = "sample"]
    /\ UNCHANGED <<keepAliveInterval, streamTime, notStreamVars, response>>

\* let keepAliveInterval = setInterval(..., 30000)
SetKeepAlive ==
    /\ stream.pc = "sample"
    /\ keepAliveInterval' = streamTime + KeepAliveEvery
    /\ stream' = [stream EXCEPT !.pc = "interval"]
    /\ UNCHANGED <<streamTime, notStreamVars, response>>

\* stream.onAbort(() => clearInterval(keepAliveInterval))
RegisterOnAbort ==
    /\ stream.pc = "interval"
    /\ stream' = [stream EXCEPT !.pc = "registered", !.onAbort = TRUE]
    /\ UNCHANGED <<keepAliveInterval, streamTime, notStreamVars, response>>

\* The callback has nothing left to await: its promise resolves and
\* streamSSE closes the stream.
CallbackReturns ==
    /\ stream.pc = "registered"
    /\ stream' = [stream EXCEPT !.pc = "returned",
                                !.state = IF @ = "open" THEN "closed" ELSE @]
    /\ UNCHANGED <<keepAliveInterval, streamTime, notStreamVars, response>>

\* The client goes away.  An open stream is cancelled and the listeners
\* registered so far run; a closed stream has nothing left to cancel.
ClientDisconnects ==
    /\ stream.connected
    /\ stream' = [stream EXCEPT !.connected = FALSE,
                                !.state = IF @ = "open" THEN "aborted" ELSE @]
    /\ keepAliveInterval' = IF stream.state = "open" /\ stream.onAbort
                            THEN NoVal ELSE keepAliveInterval
    /\ UNCHANGED <<streamTime, notStreamVars, response>>

\* The interval's callback: writeSSE of a ping.
KeepAliveFires ==
    /\ keepAliveInterval # NoVal /\ keepAliveInterval = streamTime
    /\ Len(stream.events) + stream.dropped < MaxPings + 2
    /\ stream' = writeSSE(stream, "ping")
    /\ keepAliveInterval' = keepAliveInterval + KeepAliveEvery
    /\ UNCHANGED <<streamTime, notStreamVars, response>>

StreamTimePasses ==
    /\ streamTime < MaxStreamTime
    /\ keepAliveInterval = NoVal \/ streamTime < keepAliveInterval
    /\ streamTime' = streamTime + 1
    /\ UNCHANGED <<stream, keepAliveInterval, notStreamVars, response>>

StreamVisitBodies == {[customerId |-> 1]}

NextStream ==
    \/ /\ nextVisitId <= MaxVisits
       /\ \E user \in Users, data \in StreamVisitBodies :
            CreateVisit(user, data) /\ UNCHANGED streamVars
    \/ \E user \in Users, visitSessionId \in 1..MaxVisits : OpenStream(user, visitSessionId)
    \/ WriteSample
    \/ SetKeepAlive
    \/ RegisterOnAbort
    \/ CallbackReturns
    \/ ClientDisconnects
    \/ KeepAliveFires
    \/ StreamTimePasses

SpecStream == InitTables /\ [][NextStream]_vars

----------------------------------------------------------------------------
(* C24 *)

\* The stream has ended: it was closed, or the client is gone.
StreamEnded == stream.state \in {"closed", "aborted"} \/ (stream.state # "none" /\ ~stream.connected)

\* C24: once the initial messages are out the connection stays open
\* while the client is connected, and once the client has disconnected or
\* the stream is closed the keep-alive timer is cleared and no heartbeat
\* is written to the stream any more.
C24_KeepAliveWhileConnected ==
    /\ [](stream.pc = "returned" /\ stream.connected => stream.state = "open")
    /\ [](stream.pc = "returned" /\ StreamEnded => keepAliveInterval = NoVal)
    /\ [][StreamEnded /\ stream.pc = "returned" => ~KeepAliveFires]_vars

\* The part that holds: a ping reaches the client only while the stream is
\* open and the client connected, and a client that disconnects from an
\* open stream after the handler registered onAbort stops the timer.
PingsOnlyWhileOpen ==
    [][/\ KeepAliveFires /\ Len(stream'.events) > Len(stream.events)
            => stream.state = "open" /\ stream.connected
       /\ ClientDisconnects /\ stream.state = "open" /\ stream.onAbort
            => keepAliveInterval' = NoVal]_vars


----------------------------------------------------------------------------
(* C25 *)

\* C25: an admin cannot deactivate their own account.  DELETE
\* /api/users/:id with the caller's own user id is rejected with the error
\* 'Cannot deactivate your own account' (status 400) and the caller's row
\* keeps isActive = TRUE.
C25_NoSelfDeactivation ==
    [][\A user \in Callers :
          user.role = "admin" /\ DeactivateUser(user, user.userId) =>
             /\ response'.status = 400
             /\ users' = users]_vars


----------------------------------------------------------------------------
(* The sessions model: the admin of account 1 adds a team member and       *)
(* deactivates other users; people log in with right and wrong passwords and     *)
(* with an unknown email, refresh, and call routes behind the middleware   *)
(* with the tokens issued so far, while time passes.                       *)

SessionTeamBodies == { [email |-> "c@one", password |-> "Secret-new-12", role |-> "office"] }

SessionLoginBodies ==
    { [email |-> e, password |-> pw] :
        e \in {"a@one", "c@one", "x@none"}, pw \in {"Secret-one-1", "Secret-new-12", "wrong"} }

SessionRoutes == {"getCustomer", "me"}

\* What a script of the client can put into the X-Refresh-Token header:
\* nothing, or a token it read in the body of the last answer.
ScriptReadable == {NoToken, delivered.accessToken, delivered.refreshToken}

NextSessions ==
    \/ /\ nextUserId <= MaxUsers
       /\ \E user \in Callers, data \in SessionTeamBodies : CreateUser(user, data)
    \/ \E user \in Callers, id \in UserIds : id # user.userId /\ DeactivateUser(user, id)
    \/ /\ Cardinality(tokens) + 2 <= MaxTokens
       /\ \E data \in SessionLoginBodies : Login(data)
    \/ /\ Cardinality(tokens) + 2 <= MaxTokens
       /\ \E token \in {NoToken} \cup tokens : Refresh(token)
    \/ \E op \in SessionRoutes, token \in {NoToken} \cup tokens : authMiddleware(op, token)
    \/ Tick

SpecSessions == InitTables /\ [][NextSessions]_vars

----------------------------------------------------------------------------
(* C27 *)

Deactivated(userId) == \E u \in users : u.id = userId /\ ~u.isActive

\* Login and refresh turn a deactivated user away.
LoginAndRefreshRefuse ==
    /\ \A data \in SessionLoginBodies :
          Login(data) /\ (\E u \in users : u.email = data.email /\ ~u.isActive)
             => response'.status = 401
    /\ \A token \in tokens :
          Refresh(token) /\ Deactivated(token.payload.userId) => response'.status = 401

\* C27: deactivation takes effect at once.  Once a user's isActive is
\* false, every login as that user, every refresh with a token of that
\* user and every call of a route behind the auth middleware with an access
\* token of that user is answered 401, also when the token was issued
\* before the deactivation.
C27_DeactivationAtOnce ==
    [][/\ LoginAndRefreshRefuse
       /\ \A op \in SessionRoutes, token \in tokens :
             authMiddleware(op, token) /\ Deactivated(token.payload.userId)
                => response'.status = 401]_vars

\* The part that holds: login, refresh and GET /api/auth/me.
DeactivatedCannotLogInOrRefresh ==
    [][/\ LoginAndRefreshRefuse
       /\ \A token \in tokens :
             authMiddleware("me", token) /\ Deactivated(token.payload.userId)
                => response'.status = 401]_vars

----------------------------------------------------------------------------
(* C28 *)

\* The client holds what a successful login delivered, and the refresh
\* token in its cookie is good: not expired, its user active.
HoldsGoodLogin ==
    /\ delivered.message = "Login successful"
    /\ verifyRefreshToken(delivered.cookies.refreshToken)
    /\ \E u \in users : u.id = delivered.cookies.refreshToken.payload.userId /\ u.isActive

\* C28: a client that holds exactly what login delivered, the access token
\* of the body and the two httpOnly cookies, gets a new access token from
\* POST /api/auth/refresh: whatever such a client can put into the request,
\* its cookies going along, the answer is 200.
C28_RefreshAcceptsWhatLoginIssued ==
    [][\A header \in ScriptReadable :
          HoldsGoodLogin /\ Refresh(header) => response'.status = 200]_vars

\* The part that holds: the refresh token itself, sent in the
\* X-Refresh-Token header, is accepted while it is good.
RefreshAcceptsHeader ==
    [][HoldsGoodLogin /\ Refresh(delivered.cookies.refreshToken)
          => response'.status = 200 /\ delivered'.accessToken # NoToken]_vars

----------------------------------------------------------------------------
(* C30 *)

\* C30: login does not tell whether an email belongs to a user.  With a
\* password that is not the password of the account, the answer is 401
\* 'Invalid email or password' whether the email is unknown, that of an
\* active user or that of a deactivated user.
C30_LoginAnswersAlike ==
    [][\A data \in SessionLoginBodies :
          Login(data) /\ ~(\E u \in users : u.email = data.email /\ u.password = data.password)
             => /\ response'.status = 401
                /\ delivered'.message = "Invalid email or password"]_vars

\* The part that holds: an unknown email and a wrong password for an
\* active user get the same answer.
ActiveAndUnknownAnswerAlike ==
    [][\A data \in SessionLoginBodies :
          Login(data) /\ ~(\E u \in users : u.email = data.email /\ ~u.isActive)
                      /\ ~(\E u \in users : u.email = data.email /\ u.password = data.password)
             => /\ response'.status = 401
                /\ delivered'.message = "Invalid email or password"]_vars


----------------------------------------------------------------------------
(* C29 *)

\* C29: the button never invokes onClick while an earlier invocation is
\* still executing, whatever the order of presses, releases, clicks and
\* timer callbacks: an invocation starts only when none is in progress.
C29_OneInvocationAtATime ==
    [][onClickCalls' > onClickCalls => ~isExecuting]_vars

\* The part that holds: a click and a new press start nothing while an
\* invocation is in progress.
ClickAndPressWaitForOnClick ==
    [][isExecuting /\ (handleClick \/ handleMouseDown)
          => onClickCalls' = onClickCalls /\ timers' = timers]_vars

====
